---- MODULE Spec2Model ----
(***************************************************************************)
(* Storage engine of the issue tracker: the transactional mutation         *)
(* pipeline (SqliteStorage::mutate), the issue / dependency / label        *)
(* operations built on it, the blocked-issues cache and the dirty set.     *)
(*                                                                         *)
(* The specifications share the state:                                     *)
(*   Spec    every storage call is one step (a call is atomic for a        *)
(*           single process: mutate holds the write lock from BEGIN        *)
(*           IMMEDIATE to COMMIT);                                         *)
(*   SpecReady, SpecSync, SpecImport                                       *)
(*           Spec narrowed to the readiness calls, and Spec extended by    *)
(*           the JSONL flush and by the JSONL import;                      *)
(*   SpecTx  two processes run the calls step by step: lock, body, write   *)
(*           events, mark dirty, invalidate, commit or roll back.          *)
(***************************************************************************)
EXTENDS Integers, Sequences, FiniteSets, TLC

VARIABLES
    db,      \* committed tables: issues, deps, labels, events, dirty, cache
    now,     \* wall clock (Utc::now())
    jsonl,   \* exported line per issue id (the JSONL file)
    history, \* files of the .br_history directory
    tree,    \* result of the last dep tree command
    lock,    \* holder of the database write lock, or NONE
    tx,      \* working copy of the tables inside the open write transaction
    pc,      \* per process: position inside the running call
    call,    \* per process: the running call and its arguments
    ctx,     \* per process: MutationContext of the running mutate
    snap     \* per process: committed tables when its transaction began

vars == <<db, now, jsonl, history, tree, lock, tx, pc, call, ctx, snap>>

----------------------------------------------------------------------------
(* Values and bounds *)

NULL == "NULL"
NONE == "none"
NoTime == -1      \* a NULL timestamp column

Ids == {"a", "b"}
Actors == {"alice"}
Procs == {"p1", "p2"}
Terminal == {"closed", "tombstone"}
DepTypes == {"blocks", "parent-child"}
LabelNames == {"urgent"}
Reasons == {"dup"}

MaxEvents == 3
MaxReadyEvents == 4
MaxTxEvents == 3
MaxImportEvents == 2

\* the issues a caller passes to create_issue, apart from the id: open with
\* no deferral, open and deferred to a later or to a past time, closed, and
\* tombstone; the caller built the Issue at time 0 and the clock reads 1
\* while the calls run
IssueShapes ==
    {[status |-> "open",      issue_type |-> "task", priority |-> 2, defer_until |-> NoTime,
      created_at |-> 0, updated_at |-> 0],
     [status |-> "open",      issue_type |-> "bug",  priority |-> 2, defer_until |-> 2,
      created_at |-> 0, updated_at |-> 0],
     [status |-> "open",      issue_type |-> "task", priority |-> 2, defer_until |-> 0,
      created_at |-> 0, updated_at |-> 0],
     [status |-> "closed",    issue_type |-> "bug",  priority |-> 2, defer_until |-> NoTime,
      created_at |-> 0, updated_at |-> 0],
     [status |-> "tombstone", issue_type |-> "task", priority |-> 2, defer_until |-> NoTime,
      created_at |-> 0, updated_at |-> 0]}

----------------------------------------------------------------------------
(* Tables *)

EmptyTables ==
    [issues |-> <<>>, deps |-> {}, labels |-> {}, events |-> <<>>,
     dirty |-> {}, cache |-> {}]

\* (mutant) the INSERT also names closed_at and is_template
NewRow_with_more_columns(issue) ==
    [status        |-> issue.status,
     issue_type    |-> issue.issue_type,
     priority      |-> issue.priority,
     defer_until   |-> issue.defer_until,
     created_at    |-> issue.created_at,
     updated_at    |-> issue.updated_at,
     closed_at     |-> issue.closed_at,
     deleted_at    |-> NoTime,
     deleted_by    |-> NULL,
     delete_reason |-> NULL,
     original_type |-> NULL,
     is_template   |-> issue.is_template]

\* the row INSERTed by create_issue; columns it does not name take the
\* schema defaults (NULL, 0)
NewRow(issue) ==
    [status        |-> issue.status,
     issue_type    |-> issue.issue_type,
     priority      |-> issue.priority,
     defer_until   |-> issue.defer_until,
     created_at    |-> issue.created_at,
     updated_at    |-> issue.updated_at,
     closed_at     |-> NoTime,
     deleted_at    |-> NoTime,
     deleted_by    |-> NULL,
     delete_reason |-> NULL,
     original_type |-> NULL,
     is_template   |-> FALSE]

DirtyIds(t) == {r.issue_id : r \in t.dirty}

----------------------------------------------------------------------------
(* MutationContext *)

NewContext(op, actor) ==
    [op_name |-> op, actor |-> actor, events |-> <<>>, dirty_ids |-> {},
     invalidate_blocked_cache |-> FALSE]

record_event(c, event_type, issue_id) ==
    [c EXCEPT !.events = Append(@, [issue_id   |-> issue_id,
                                    event_type |-> event_type,
                                    actor      |-> c.actor,
                                    created_at |-> now])]

mark_dirty(c, issue_id) ==
    [c EXCEPT !.dirty_ids = @ \cup {issue_id}]

invalidate_cache(c) ==
    [c EXCEPT !.invalidate_blocked_cache = TRUE]

\* result of a transaction body: Ok(value) with the tables and context it
\* left, or Err
BodyOk(t, c, res) == [ok |-> TRUE, t |-> t, ctx |-> c, res |-> res]
BodyErr(t, c, e) == [ok |-> FALSE, t |-> t, ctx |-> c, res |-> e]

----------------------------------------------------------------------------
(* SqliteStorage::mutate: the steps after the body returned Ok *)

\* (mutant) the loop takes the recorded events from the back of the Vec
write_events_reversed(t, c) ==
    [t EXCEPT !.events =
        @ \o [i \in 1..Len(c.events) |->
                [id         |-> Len(t.events) + i,
                 issue_id   |-> c.events[Len(c.events) + 1 - i].issue_id,
                 event_type |-> c.events[Len(c.events) + 1 - i].event_type,
                 actor      |-> c.events[Len(c.events) + 1 - i].actor,
                 created_at |-> c.events[Len(c.events) + 1 - i].created_at]]]

\* (mutant) the statement rewrites the journal instead of appending to it
write_events_rewriting(t, c) ==
    [t EXCEPT !.events =
        [i \in 1..Len(c.events) |->
                [id         |-> i,
                 issue_id   |-> c.events[i].issue_id,
                 event_type |-> c.events[i].event_type,
                 actor      |-> c.events[i].actor,
                 created_at |-> c.events[i].created_at]]]

\* INSERT INTO events: the database assigns the next id
write_events(t, c) ==
    [t EXCEPT !.events =
        @ \o [i \in 1..Len(c.events) |->
                [id         |-> Len(t.events) + i,
                 issue_id   |-> c.events[i].issue_id,
                 event_type |-> c.events[i].event_type,
                 actor      |-> c.events[i].actor,
                 created_at |-> c.events[i].created_at]]]

\* INSERT OR REPLACE INTO dirty_issues (issue_id is the primary key)
write_dirty(t, c) ==
    [t EXCEPT !.dirty =
        {r \in @ : r.issue_id \notin c.dirty_ids}
        \cup {[issue_id |-> i, marked_at |-> now] : i \in c.dirty_ids}]

\* (mutant) the cache rows survive the commit
write_invalidate_skipped(t, c) == t

\* DELETE FROM blocked_issues_cache, if requested
write_invalidate(t, c) ==
    [t EXCEPT !.cache = IF c.invalidate_blocked_cache THEN {} ELSE @]

\* mutate as a whole, given what the body returned when it ran on tables t
\* with a fresh context: events, dirty, cache, commit; a body error drops
\* the transaction, which rolls it back
mutate(t, r) ==
    IF r.ok
    THEN [ok  |-> TRUE,
          t   |-> write_invalidate(write_dirty(write_events(r.t, r.ctx),
                                               r.ctx), r.ctx),
          res |-> r.res]
    ELSE [ok |-> FALSE, t |-> t, res |-> r.res]

----------------------------------------------------------------------------
(* Transaction bodies of the storage calls *)

\* (mutant) the INSERT replaces a row that has the same id
create_issue_body_replacing(t, c, issue) ==
    BodyOk([t EXCEPT !.issues =
                (issue.id :> NewRow(issue))
                @@ [i \in DOMAIN @ \ {issue.id} |-> @[i]]],
           mark_dirty(record_event(c, "created", issue.id), issue.id),
           "unit")

create_issue_body(t, c, issue) ==
    IF issue.id \in DOMAIN t.issues
    THEN BodyErr(t, c, "IdCollision")
    ELSE BodyOk([t EXCEPT !.issues = (issue.id :> NewRow(issue)) @@ @],
                mark_dirty(record_event(c, "created", issue.id), issue.id),
                "unit")

\* (mutant) the deletion cascades to the issue's labels and to the
\* dependency rows that mention it
delete_issue_body_cascading(t, c, id, actor, reason, original_type) ==
    LET issues2 ==
            [i \in DOMAIN t.issues |->
                IF i = id
                THEN [t.issues[i] EXCEPT !.status        = "tombstone",
                                         !.deleted_at    = now,
                                         !.deleted_by    = actor,
                                         !.delete_reason = reason,
                                         !.original_type = original_type,
                                         !.updated_at    = now]
                ELSE t.issues[i]]
    IN  BodyOk([t EXCEPT !.issues = issues2,
                         !.labels = {l \in @ : l[1] # id},
                         !.deps = {d \in @ : d.issue_id # id
                                             /\ d.depends_on_id # id}],
               invalidate_cache(mark_dirty(record_event(c, "deleted", id), id)),
               "unit")

\* UPDATE issues SET ... WHERE id = ? touches the row if it is there
delete_issue_body(t, c, id, actor, reason, original_type) ==
    LET issues2 ==
            [i \in DOMAIN t.issues |->
                IF i = id
                THEN [t.issues[i] EXCEPT !.status        = "tombstone",
                                         !.deleted_at    = now,
                                         !.deleted_by    = actor,
                                         !.delete_reason = reason,
                                         !.original_type = original_type,
                                         !.updated_at    = now]
                ELSE t.issues[i]]
    IN  BodyOk([t EXCEPT !.issues = issues2],
               invalidate_cache(mark_dirty(record_event(c, "deleted", id), id)),
               "unit")

\* (mutant) the event, the dirty mark and the invalidation do not depend on
\* the number of deleted rows
remove_dependency_body_unconditional(t, c, issue_id, depends_on_id) ==
    LET gone == {d \in t.deps : d.issue_id = issue_id
                                /\ d.depends_on_id = depends_on_id}
    IN  BodyOk([t EXCEPT !.deps = @ \ gone],
               invalidate_cache(mark_dirty(
                   record_event(c, "dependency_removed", issue_id),
                   issue_id)),
               gone # {})

\* (mutant) the removal leaves the blocked cache as it is
remove_dependency_body_keeping_cache(t, c, issue_id, depends_on_id) ==
    LET gone == {d \in t.deps : d.issue_id = issue_id
                                /\ d.depends_on_id = depends_on_id}
    IN  IF gone # {}
        THEN BodyOk([t EXCEPT !.deps = @ \ gone],
                    mark_dirty(record_event(c, "dependency_removed", issue_id),
                               issue_id),
                    TRUE)
        ELSE BodyOk(t, c, FALSE)

remove_dependency_body(t, c, issue_id, depends_on_id) ==
    LET gone == {d \in t.deps : d.issue_id = issue_id
                                /\ d.depends_on_id = depends_on_id}
    IN  IF gone # {}
        THEN BodyOk([t EXCEPT !.deps = @ \ gone],
                    invalidate_cache(mark_dirty(
                        record_event(c, "dependency_removed", issue_id),
                        issue_id)),
                    TRUE)
        ELSE BodyOk(t, c, FALSE)

\* INSERT INTO dependencies fails on a duplicate (issue_id, depends_on_id)
add_dependency_body(t, c, issue_id, depends_on_id, dep_type, actor) ==
    IF \E d \in t.deps : d.issue_id = issue_id
                         /\ d.depends_on_id = depends_on_id
    THEN BodyErr(t, c, "Duplicate")
    ELSE BodyOk([t EXCEPT !.deps = @ \cup {[issue_id      |-> issue_id,
                                            depends_on_id |-> depends_on_id,
                                            type          |-> dep_type]}],
                invalidate_cache(mark_dirty(
                    record_event(c, "dependency_added", issue_id), issue_id)),
                "unit")

\* (mutant) the event and the dirty mark are recorded whether or not the
\* INSERT OR IGNORE inserted a row
add_label_body_always_journaling(t, c, issue_id, label) ==
    BodyOk([t EXCEPT !.labels = @ \cup {<<issue_id, label>>}],
           mark_dirty(record_event(c, "label_added", issue_id), issue_id),
           <<issue_id, label>> \notin t.labels)

\* (mutant) the label row is inserted without an event
add_label_body_unjournaled(t, c, issue_id, label) ==
    IF <<issue_id, label>> \in t.labels
    THEN BodyOk(t, c, FALSE)
    ELSE BodyOk([t EXCEPT !.labels = @ \cup {<<issue_id, label>>}],
                mark_dirty(c, issue_id), TRUE)

\* INSERT OR IGNORE INTO labels
add_label_body(t, c, issue_id, label) ==
    IF <<issue_id, label>> \in t.labels
    THEN BodyOk(t, c, FALSE)
    ELSE BodyOk([t EXCEPT !.labels = @ \cup {<<issue_id, label>>}],
                mark_dirty(record_event(c, "label_added", issue_id), issue_id),
                TRUE)

\* (mutant) the issues at the other end of the removed edges are not marked
remove_all_dependencies_body_self_only(t, c, issue_id) ==
    LET outgoing == {d \in t.deps : d.issue_id = issue_id}
        incoming == {d \in t.deps \ outgoing : d.depends_on_id = issue_id}
        total    == Cardinality(outgoing) + Cardinality(incoming)
    IN  IF total > 0
        THEN BodyOk([t EXCEPT !.deps = (@ \ outgoing) \ incoming],
                    invalidate_cache(mark_dirty(
                        record_event(c, "dependency_removed", issue_id),
                        issue_id)),
                    total)
        ELSE BodyOk(t, c, total)

\* (mutant) only the rows where the issue depends on others are deleted
remove_all_dependencies_body_outgoing_only(t, c, issue_id) ==
    LET affected == {d.issue_id : d \in {e \in t.deps :
                                            e.depends_on_id = issue_id}}
                    \cup {d.depends_on_id : d \in {e \in t.deps :
                                            e.issue_id = issue_id}}
        outgoing == {d \in t.deps : d.issue_id = issue_id}
        total    == Cardinality(outgoing)
        c1       == mark_dirty(record_event(c, "dependency_removed", issue_id),
                               issue_id)
        c2       == [c1 EXCEPT !.dirty_ids = @ \cup affected]
    IN  IF total > 0
        THEN BodyOk([t EXCEPT !.deps = @ \ outgoing],
                    invalidate_cache(c2), total)
        ELSE BodyOk(t, c, total)

remove_all_dependencies_body(t, c, issue_id) ==
    LET affected == {d.issue_id : d \in {e \in t.deps :
                                            e.depends_on_id = issue_id}}
                    \cup {d.depends_on_id : d \in {e \in t.deps :
                                            e.issue_id = issue_id}}
        outgoing == {d \in t.deps : d.issue_id = issue_id}
        incoming == {d \in t.deps \ outgoing : d.depends_on_id = issue_id}
        total    == Cardinality(outgoing) + Cardinality(incoming)
        c1       == mark_dirty(record_event(c, "dependency_removed", issue_id),
                               issue_id)
        c2       == [c1 EXCEPT !.dirty_ids = @ \cup affected]
    IN  IF total > 0
        THEN BodyOk([t EXCEPT !.deps = (@ \ outgoing) \ incoming],
                    invalidate_cache(c2), total)
        ELSE BodyOk(t, c, total)

\* the body of test_transaction_rollback_on_error: insert a row, mark it
\* dirty, then return an error
test_fail_body(t, c, id) ==
    IF id \in DOMAIN t.issues
    THEN BodyErr(t, c, "IdCollision")
    ELSE BodyErr([t EXCEPT !.issues =
                    (id :> NewRow([status |-> "open", issue_type |-> "task", priority |-> 2,
                                   defer_until |-> NoTime,
                                   created_at |-> now,
                                   updated_at |-> now])) @@ @],
                 mark_dirty(c, id), "IssueNotFound")

----------------------------------------------------------------------------
(* The storage calls *)

id_exists(t, id) == id \in DOMAIN t.issues

get_issue(t, id) == t.issues[id]

\* limit = None
NoLimit == -1

\* ListFilters::default(): no status filter, closed and tombstone issues and
\* templates excluded, no limit
DefaultFilters ==
    [statuses |-> {}, include_closed |-> FALSE, include_templates |-> FALSE,
     limit |-> NoLimit]

\* the WHERE clause list_issues and search_issues build from the filters
\* (an absent and an empty status filter are the same)
FilterMatches(row, filters) ==
    /\ filters.statuses # {} => row.status \in filters.statuses
    /\ ~filters.include_closed => row.status \notin {"closed", "tombstone"}
    /\ ~filters.include_templates => ~row.is_template

\* (mutant) the default exclusion names only 'closed'
list_issues_excluding_closed_only(t, filters) ==
    {i \in DOMAIN t.issues :
        /\ filters.statuses # {} => t.issues[i].status \in filters.statuses
        /\ ~filters.include_closed => t.issues[i].status # "closed"
        /\ ~filters.include_templates => ~t.issues[i].is_template}

\* the ids of the rows list_issues returns
list_issues(t, filters) ==
    {i \in DOMAIN t.issues : FilterMatches(t.issues[i], filters)}

\* the non-empty substrings of the ids that have more than one character
Substrings == [ab |-> {"a", "b", "ab"}]

\* text LIKE %query%
Like(text, query) ==
    IF text \in DOMAIN Substrings THEN query \in Substrings[text]
    ELSE query = text

\* the ids of the rows search_issues selects; the query is matched (LIKE
\* %query%) against the id, an empty query returns nothing
search_issues(t, query, filters) ==
    IF query = ""
    THEN {}
    ELSE {i \in DOMAIN t.issues :
            Like(i, query) /\ FilterMatches(t.issues[i], filters)}

\* ORDER BY priority ASC, created_at DESC: the orders the query may return
\* the selected rows in (rows equal in both columns come in either order)
OrderBy(t, ids) ==
    {s \in [1..Cardinality(ids) -> ids] :
        /\ \A j, k \in DOMAIN s : j # k => s[j] # s[k]
        /\ \A k \in 1..(Cardinality(ids) - 1) :
              \/ t.issues[s[k]].priority < t.issues[s[k + 1]].priority
              \/ /\ t.issues[s[k]].priority = t.issues[s[k + 1]].priority
                 /\ t.issues[s[k]].created_at >= t.issues[s[k + 1]].created_at}

\* LIMIT is appended only for Some(limit) with limit > 0
Limit(s, limit) ==
    IF limit > 0 /\ limit < Len(s) THEN SubSeq(s, 1, limit) ELSE s

\* (mutant) the rows come oldest first
list_issues_rows_oldest_first(t, filters) ==
    {Limit(s, filters.limit) :
        s \in {[k \in DOMAIN o |-> o[Len(o) + 1 - k]] :
                  o \in OrderBy(t, list_issues(t, filters))}}

\* the Vec list_issues returns: the selected rows, ordered and limited
list_issues_rows(t, filters) ==
    {Limit(s, filters.limit) : s \in OrderBy(t, list_issues(t, filters))}

\* the Vec search_issues returns
search_issues_rows(t, query, filters) ==
    {Limit(s, filters.limit) :
        s \in OrderBy(t, search_issues(t, query, filters))}

create_issue(t, issue, actor) ==
    mutate(t, create_issue_body(t, NewContext("create_issue", actor), issue))

delete_issue(t, id, actor, reason) ==
    IF ~id_exists(t, id)
    THEN [ok |-> FALSE, t |-> t, res |-> "IssueNotFound"]
    ELSE mutate(t, delete_issue_body(t, NewContext("delete_issue", actor),
                                     id, actor, reason,
                                     get_issue(t, id).issue_type))

remove_dependency(t, issue_id, depends_on_id, actor) ==
    mutate(t, remove_dependency_body(t, NewContext("remove_dependency", actor),
                                     issue_id, depends_on_id))

add_dependency(t, issue_id, depends_on_id, dep_type, actor) ==
    mutate(t, add_dependency_body(t, NewContext("add_dependency", actor),
                                  issue_id, depends_on_id, dep_type, actor))

add_label(t, issue_id, label, actor) ==
    mutate(t, add_label_body(t, NewContext("add_label", actor), issue_id,
                             label))

remove_all_dependencies(t, issue_id, actor) ==
    mutate(t, remove_all_dependencies_body(
                  t, NewContext("remove_all_dependencies", actor), issue_id))

----------------------------------------------------------------------------
(* Readiness and the blocked-issues cache *)

NonTerminal(t, i) == i \in DOMAIN t.issues /\ t.issues[i].status \notin Terminal

\* (mutant) edges of every type block
BlockedBy_any_type(t, i) ==
    {d.depends_on_id : d \in {e \in t.deps :
        e.issue_id = i /\ NonTerminal(t, e.depends_on_id)}}

\* ids currently blocking issue i: targets of its `blocks` edges that are
\* not in a terminal status
BlockedBy(t, i) ==
    {d.depends_on_id : d \in {e \in t.deps :
        e.issue_id = i /\ e.type = "blocks" /\ NonTerminal(t, e.depends_on_id)}}

\* the full blocked map a reader materializes into blocked_issues_cache
BlockedMap(t) ==
    {[issue_id |-> i, blocked_by |-> BlockedBy(t, i)] :
        i \in {j \in DOMAIN t.issues : BlockedBy(t, j) # {}}}

Deferred(t, i) ==
    t.issues[i].defer_until # NoTime /\ t.issues[i].defer_until > now

\* ready list with the blocked set taken from the given blocked map
ReadyWith(t, blocked) ==
    {i \in DOMAIN t.issues :
        /\ t.issues[i].status \notin Terminal
        /\ ~t.issues[i].is_template
        /\ ~Deferred(t, i)
        /\ i \notin {r.issue_id : r \in blocked}}

\* hot read path: a populated cache is trusted, an empty one is recomputed
ReadyQuery(t) ==
    ReadyWith(t, IF t.cache # {} THEN t.cache ELSE BlockedMap(t))

\* blocked list, read the same way
BlockedQuery(t) ==
    {r.issue_id : r \in IF t.cache # {} THEN t.cache ELSE BlockedMap(t)}

----------------------------------------------------------------------------
(* JSONL export *)

NoLine == [absent |-> TRUE]

\* the line rendered for an issue: its row, labels and outgoing dependencies
Line(t, i) ==
    IF i \in DOMAIN t.issues
    THEN [row    |-> t.issues[i],
          labels |-> {l[2] : l \in {m \in t.labels : m[1] = i}},
          deps   |-> {[id |-> d.depends_on_id, type |-> d.type] :
                        d \in {e \in t.deps : e.issue_id = i}}]
    ELSE NoLine

----------------------------------------------------------------------------
(* JSONL lines, full flush and import (spec 4.10, 6.2) *)

LabelsOf(t, i) == {l[2] : l \in {m \in t.labels : m[1] = i}}

DepsOf(t, i) ==
    {[id |-> d.depends_on_id, type |-> d.type] :
        d \in {e \in t.deps : e.issue_id = i}}

\* the digest over the stable fields; the model keeps the digested tuple
content_hash(issue_type, status, labels, deps) ==
    <<issue_type, status, labels, deps>>

\* the keys of the JSON object: empty and null fields are omitted
PresentKeys(full) ==
    {"id", "status", "type", "priority", "created_at", "updated_at",
     "content_hash"}
    \cup {k \in {"defer_until", "closed_at", "deleted_at"} :
            full[k] # NoTime}
    \cup {k \in {"deleted_by", "delete_reason", "original_type"} :
            full[k] # NULL}
    \cup {k \in {"labels", "dependencies"} : full[k] # {}}

\* one JSON object for an issue given by its id, row, labels and dependencies
RenderIssue(i, row, labels, deps) ==
    LET full == [id            |-> i,
                 status        |-> row.status,
                 type          |-> row.issue_type,
                 priority      |-> row.priority,
                 labels        |-> labels,
                 dependencies  |-> deps,
                 created_at    |-> row.created_at,
                 updated_at    |-> row.updated_at,
                 defer_until   |-> row.defer_until,
                 closed_at     |-> row.closed_at,
                 deleted_at    |-> row.deleted_at,
                 deleted_by    |-> row.deleted_by,
                 delete_reason |-> row.delete_reason,
                 original_type |-> row.original_type,
                 content_hash  |-> content_hash(row.issue_type, row.status,
                                                labels, deps)]
    IN  [k \in PresentKeys(full) |-> full[k]]

RenderLine(t, i) == RenderIssue(i, t.issues[i], LabelsOf(t, i), DepsOf(t, i))

\* the order in which a full flush writes the issues
IdOrder == <<"a", "b">>

\* full flush: one line per issue; tombstones are emitted with their
\* deletion metadata
FullExport(t) ==
    LET Exported(i) == i \in DOMAIN t.issues
    IN  [k \in 1..Len(SelectSeq(IdOrder, Exported)) |->
            RenderLine(t, SelectSeq(IdOrder, Exported)[k])]

\* a line that is not a JSON object of an issue
MalformedLine == [garbage |-> TRUE]

IsMalformed(line) == "id" \notin DOMAIN line

Field(line, k, default) == IF k \in DOMAIN line THEN line[k] ELSE default

\* the issue record parsed from a line; omitted keys are null or empty
ParseLine(line) ==
    [id            |-> line["id"],
     status        |-> line["status"],
     issue_type    |-> line["type"],
     priority      |-> line["priority"],
     labels        |-> Field(line, "labels", {}),
     deps          |-> Field(line, "dependencies", {}),
     created_at    |-> line["created_at"],
     updated_at    |-> line["updated_at"],
     defer_until   |-> Field(line, "defer_until", NoTime),
     closed_at     |-> Field(line, "closed_at", NoTime),
     deleted_at    |-> Field(line, "deleted_at", NoTime),
     deleted_by    |-> Field(line, "deleted_by", NULL),
     delete_reason |-> Field(line, "delete_reason", NULL),
     original_type |-> Field(line, "original_type", NULL)]

\* (mutant) the written row is stamped with the time of the import
ImportRow_stamped(p) ==
    [status        |-> p.status,
     issue_type    |-> p.issue_type,
     priority      |-> p.priority,
     defer_until   |-> p.defer_until,
     created_at    |-> p.created_at,
     updated_at    |-> now,
     closed_at     |-> p.closed_at,
     deleted_at    |-> p.deleted_at,
     deleted_by    |-> p.deleted_by,
     delete_reason |-> p.delete_reason,
     original_type |-> p.original_type,
     is_template   |-> FALSE]

\* the issues row written for a parsed line
ImportRow(p) ==
    [status        |-> p.status,
     issue_type    |-> p.issue_type,
     priority      |-> p.priority,
     defer_until   |-> p.defer_until,
     created_at    |-> p.created_at,
     updated_at    |-> p.updated_at,
     closed_at     |-> p.closed_at,
     deleted_at    |-> p.deleted_at,
     deleted_by    |-> p.deleted_by,
     delete_reason |-> p.delete_reason,
     original_type |-> p.original_type,
     is_template   |-> FALSE]

\* the tables with the issue of a parsed line written over whatever they
\* held for its id: row, labels and outgoing dependencies
UpsertIssue(t, p) ==
    [t EXCEPT
        !.issues = (p.id :> ImportRow(p))
                   @@ [i \in DOMAIN @ \ {p.id} |-> @[i]],
        !.labels = {l \in @ : l[1] # p.id} \cup {<<p.id, n>> : n \in p.labels},
        !.deps   = {d \in @ : d.issue_id # p.id}
                   \cup {[issue_id |-> p.id, depends_on_id |-> e.id,
                          type |-> e.type] : e \in p.deps}]

NoCounts == [inserted |-> 0, updated |-> 0, skipped |-> 0, malformed |-> 0]

\* the state an import carries from line to line
ImportState(t, c, counts, touched, failed) ==
    [t |-> t, ctx |-> c, counts |-> counts, touched |-> touched,
     failed |-> failed]

\* (mutant) a line whose id is present is applied without comparing hashes
import_line_always_upserting(st, line, lenient) ==
    IF st.failed
    THEN st
    ELSE IF IsMalformed(line)
    THEN IF lenient
         THEN [st EXCEPT !.counts.skipped = @ + 1,
                         !.counts.malformed = @ + 1]
         ELSE [st EXCEPT !.failed = TRUE]
    ELSE LET p == ParseLine(line)
         IN  IF ~id_exists(st.t, p.id)
             THEN ImportState(UpsertIssue(st.t, p),
                              record_event(st.ctx, "created", p.id),
                              [st.counts EXCEPT !.inserted = @ + 1],
                              st.touched \cup {p.id}, FALSE)
             ELSE ImportState(UpsertIssue(st.t, p),
                              record_event(st.ctx, "updated", p.id),
                              [st.counts EXCEPT !.updated = @ + 1],
                              st.touched \cup {p.id}, FALSE)

\* one line of the file: a malformed line is skipped and counted (lenient:
\* the counts are {inserted, updated, skipped} and the number of malformed
\* lines is reported) or aborts the import; an absent id is inserted with a `created` event; a present issue
\* with the same hash is skipped; any other present issue is upserted
\* (resurrected, tombstoned) with one `updated` event
import_line(st, line, lenient) ==
    IF st.failed
    THEN st
    ELSE IF IsMalformed(line)
    THEN IF lenient
         THEN [st EXCEPT !.counts.skipped = @ + 1,
                         !.counts.malformed = @ + 1]
         ELSE [st EXCEPT !.failed = TRUE]
    ELSE LET p == ParseLine(line)
         IN  IF ~id_exists(st.t, p.id)
             THEN ImportState(UpsertIssue(st.t, p),
                              record_event(st.ctx, "created", p.id),
                              [st.counts EXCEPT !.inserted = @ + 1],
                              st.touched \cup {p.id}, FALSE)
             ELSE IF content_hash(p.issue_type, p.status, p.labels, p.deps)
                     = content_hash(st.t.issues[p.id].issue_type,
                                    st.t.issues[p.id].status,
                                    LabelsOf(st.t, p.id), DepsOf(st.t, p.id))
             THEN [st EXCEPT !.counts.skipped = @ + 1]
             ELSE ImportState(UpsertIssue(st.t, p),
                              record_event(st.ctx, "updated", p.id),
                              [st.counts EXCEPT !.updated = @ + 1],
                              st.touched \cup {p.id}, FALSE)

RECURSIVE import_lines(_, _, _, _)
\* the lines k.. of the file, in order
import_lines(st, file, k, lenient) ==
    IF k > Len(file)
    THEN st
    ELSE import_lines(import_line(st, file[k], lenient), file, k + 1, lenient)

\* (mutant) the lines applied before a malformed line are kept
import_body_keeping_partial(t, c, file, lenient) ==
    LET st == import_lines(ImportState(t, c, NoCounts, {}, FALSE), file, 1,
                           lenient)
    IN  BodyOk([st.t EXCEPT !.dirty =
                    {r \in @ : r.issue_id \notin st.touched}],
               IF st.touched = {} THEN st.ctx ELSE invalidate_cache(st.ctx),
               st.counts)

\* the transaction body of an import: all lines, then the dirty rows of the
\* touched ids are removed and the cache is invalidated if a row changed
import_body(t, c, file, lenient) ==
    LET st == import_lines(ImportState(t, c, NoCounts, {}, FALSE), file, 1,
                           lenient)
    IN  IF st.failed
        THEN BodyErr(st.t, st.ctx, "ParseError")
        ELSE BodyOk([st.t EXCEPT !.dirty =
                        {r \in @ : r.issue_id \notin st.touched}],
                    IF st.touched = {} THEN st.ctx
                    ELSE invalidate_cache(st.ctx),
                    st.counts)

\* sync.import: one transaction, events recorded with actor `import`
import(t, file, lenient) ==
    mutate(t, import_body(t, NewContext("import", "import"), file, lenient))

----------------------------------------------------------------------------
(* Calls as values: the arguments of a storage call and its dispatch *)

IssueInputs ==
    {[id |-> i, status |-> s.status, issue_type |-> s.issue_type,
      priority |-> s.priority,
      defer_until |-> s.defer_until, created_at |-> s.created_at,
      updated_at |-> s.updated_at] : i \in Ids, s \in IssueShapes}

Calls ==
    [op : {"create_issue"}, issue : IssueInputs, actor : Actors]
    \cup [op : {"delete_issue"}, id : Ids, actor : Actors, reason : Reasons]
    \cup [op : {"add_dependency"}, id : Ids, depends_on_id : Ids,
          dep_type : DepTypes, actor : Actors]
    \cup [op : {"remove_dependency"}, id : Ids, depends_on_id : Ids,
          actor : Actors]
    \cup [op : {"remove_all_dependencies"}, id : Ids, actor : Actors]
    \cup [op : {"add_label"}, id : Ids, label : LabelNames, actor : Actors]

\* the issue id a call is about
CallId(cl) == IF cl.op = "create_issue" THEN cl.issue.id ELSE cl.id

\* a closure handed to mutate that records two events: it inserts the issue
\* and then its label, as the bodies of create_issue and add_label do
create_labelled_body(t, c, issue, label) ==
    LET r == create_issue_body(t, c, issue)
    IN  IF r.ok THEN add_label_body(r.t, r.ctx, issue.id, label) ELSE r

\* the closure the call hands to mutate; original_type is what delete_issue
\* read before it opened the transaction
RunBody(cl, t, c, original_type) ==
    CASE cl.op = "create_issue" -> create_issue_body(t, c, cl.issue)
      [] cl.op = "delete_issue" ->
            delete_issue_body(t, c, cl.id, cl.actor, cl.reason, original_type)
      [] cl.op = "add_dependency" ->
            add_dependency_body(t, c, cl.id, cl.depends_on_id, cl.dep_type,
                                cl.actor)
      [] cl.op = "remove_dependency" ->
            remove_dependency_body(t, c, cl.id, cl.depends_on_id)
      [] cl.op = "remove_all_dependencies" ->
            remove_all_dependencies_body(t, c, cl.id)
      [] cl.op = "add_label" -> add_label_body(t, c, cl.id, cl.label)
      [] cl.op = "import" -> import_body(t, c, cl.file, cl.lenient)
      [] cl.op = "test_fail" -> test_fail_body(t, c, cl.id)
      [] cl.op = "create_labelled" ->
            create_labelled_body(t, c, cl.issue, cl.label)

----------------------------------------------------------------------------
\* close and reopen

\* close: status -> closed, closed_at = now; records `closed`; invalidates
\* the cache
close_issue_body(t, c, id) ==
    BodyOk([t EXCEPT !.issues[id] = [@ EXCEPT !.status     = "closed",
                                              !.closed_at  = now,
                                              !.updated_at = now]],
           invalidate_cache(mark_dirty(record_event(c, "closed", id), id)),
           "unit")

close_issue(t, id, actor) ==
    IF ~id_exists(t, id)
    THEN [ok |-> FALSE, t |-> t, res |-> "IssueNotFound"]
    ELSE mutate(t, close_issue_body(t, NewContext("close_issue", actor), id))

\* reopen: status -> open, closed_at -> null; records `reopened`;
\* invalidates the cache
reopen_issue_body(t, c, id) ==
    BodyOk([t EXCEPT !.issues[id] = [@ EXCEPT !.status     = "open",
                                              !.closed_at  = NoTime,
                                              !.updated_at = now]],
           invalidate_cache(mark_dirty(record_event(c, "reopened", id), id)),
           "unit")

\* (mutant) every terminal status can be reopened
reopen_issue_from_terminal(t, id, actor) ==
    IF ~id_exists(t, id)
    THEN [ok |-> FALSE, t |-> t, res |-> "IssueNotFound"]
    ELSE IF get_issue(t, id).status \notin Terminal
    THEN [ok |-> FALSE, t |-> t, res |-> "NotClosed"]
    ELSE mutate(t, reopen_issue_body(t, NewContext("reopen_issue", actor), id))

\* only valid from closed
reopen_issue(t, id, actor) ==
    IF ~id_exists(t, id)
    THEN [ok |-> FALSE, t |-> t, res |-> "IssueNotFound"]
    ELSE IF get_issue(t, id).status # "closed"
    THEN [ok |-> FALSE, t |-> t, res |-> "NotClosed"]
    ELSE mutate(t, reopen_issue_body(t, NewContext("reopen_issue", actor), id))

\* the call run to completion on tables t
RunCall(cl, t) ==
    CASE cl.op = "create_issue" -> create_issue(t, cl.issue, cl.actor)
      [] cl.op = "delete_issue" -> delete_issue(t, cl.id, cl.actor, cl.reason)
      [] cl.op = "add_dependency" ->
            add_dependency(t, cl.id, cl.depends_on_id, cl.dep_type, cl.actor)
      [] cl.op = "remove_dependency" ->
            remove_dependency(t, cl.id, cl.depends_on_id, cl.actor)
      [] cl.op = "remove_all_dependencies" ->
            remove_all_dependencies(t, cl.id, cl.actor)
      [] cl.op = "add_label" -> add_label(t, cl.id, cl.label, cl.actor)
      [] cl.op = "test_fail" ->
            mutate(t, test_fail_body(t, NewContext("test_fail", cl.actor),
                                     cl.id))
      [] cl.op = "close_issue" -> close_issue(t, cl.id, cl.actor)
      [] cl.op = "reopen_issue" -> reopen_issue(t, cl.id, cl.actor)

---------------------------------------------------------------------------
\* History backups (sync::history): the .br_history directory is a set of
\* files; a file named <stem>.<YYYYMMDD_HHMMSS>.<ext> carries its parsed
\* timestamp in ts, a file whose name holds no such timestamp has ts = NoTime.
\* One clock unit stands for both the filename resolution and a day of age.

Stems == {"issues", "archive"}

Contents == {"v1", "v2"}

\* the target of an export: a file with its bytes, or a path where no file
\* exists yet
TargetFile(bytes) == [exists |-> TRUE, bytes |-> bytes]

NoFile == [exists |-> FALSE]

\* older_than_days = None
NoDays == -1

MaxClock == 3

\* HistoryConfig { enabled, max_count, max_age_days }
Configs == [enabled : BOOLEAN, max_count : 0..2, max_age_days : {1, 2}]

\* HistoryConfig::default(): enabled, 100 backups, 30 days
DefaultConfig == [enabled |-> TRUE, max_count |-> 100, max_age_days |-> 30]

BackupFile(stem, ts, content) ==
    [stem |-> stem, ts |-> ts, content |-> content]

\* filenames with a non-parseable timestamp are ignored
Parseable(f) == f.ts # NoTime

RECURSIVE NewestFirst(_)
NewestFirst(S) ==
    IF S = {} THEN <<>>
    ELSE LET m == CHOOSE e \in S : \A f \in S : f.ts <= e.ts
         IN  <<m>> \o NewestFirst(S \ {m})

\* list_backups(history_dir, prefix): the backups whose name starts with the
\* prefix (all when the prefix is None), newest first
list_backups_any_name(h, prefix) ==
    NewestFirst({f \in h : prefix \in {NONE, f.stem}})

list_backups(h, prefix) ==
    NewestFirst({f \in h : Parseable(f) /\ prefix \in {NONE, f.stem}})

Range(s) == {s[k] : k \in DOMAIN s}

\* rotation after a write: first the backups of the stem older than
\* max_age_days go, then the oldest beyond max_count
rotate_history_all_stems(h, config, stem, t) ==
    LET all   == list_backups(h, NONE)
        aged  == {f \in Range(all) : t - f.ts > config.max_age_days}
        young == list_backups(h \ aged, NONE)
        extra == {young[k] : k \in {m \in DOMAIN young : m > config.max_count}}
    IN  (h \ aged) \ extra

rotate_history(h, config, stem, t) ==
    LET all   == list_backups(h, stem)
        aged  == {f \in Range(all) : t - f.ts > config.max_age_days}
        young == list_backups(h \ aged, stem)
        extra == {young[k] : k \in {m \in DOMAIN young : m > config.max_count}}
    IN  (h \ aged) \ extra

\* copy the target to <stem>.<timestamp>.<ext>; a file of that name is
\* overwritten
write_backup(h, stem, content, t) ==
    {f \in h : ~(f.stem = stem /\ f.ts = t)}
        \cup {BackupFile(stem, t, content)}

\* backup_before_export(beads_dir, config, target): nothing when history is
\* disabled or the target does not exist; skipped when the most recent
\* backup of the stem has the same bytes; otherwise written and rotated
backup_before_export_comparing_all(h, config, stem, target, t) ==
    LET listed == list_backups(h, stem)
    IN  IF ~config.enabled \/ ~target.exists THEN h
        ELSE IF \E f \in Range(listed) : f.content = target.bytes THEN h
        ELSE rotate_history(write_backup(h, stem, target.bytes, t),
                            config, stem, t)

backup_before_export(h, config, stem, target, t) ==
    LET listed == list_backups(h, stem)
    IN  IF ~config.enabled \/ ~target.exists THEN h
        ELSE IF listed # <<>> /\ listed[1].content = target.bytes THEN h
        ELSE rotate_history(write_backup(h, stem, target.bytes, t),
                            config, stem, t)

\* prune_backups(history_dir, keep, older_than_days): deletes every listed
\* backup beyond the `keep` newest and every one older than the given days
prune_backups(h, keep, older_than_days, t) ==
    LET all  == list_backups(h, NONE)
        gone == {all[k] : k \in {m \in DOMAIN all :
                    \/ m > keep
                    \/ /\ older_than_days # NoDays
                       /\ t - all[m].ts > older_than_days}}
    IN  h \ gone

----------------------------------------------------------------------------
\* Dependency tree (dep tree <id> --max-depth <d>)

\* no dep tree command has run
NoTree ==
    [id |-> NONE, max_depth |-> 0, ok |-> FALSE, err |-> NONE, nodes |-> {}]

\* the issues an issue depends on: its outgoing dependency rows
DependsOn(t, id) == {d.depends_on_id : d \in {e \in t.deps : e.issue_id = id}}

\* --max-depth not given
NoDepth == -1

\* one listing of an issue in the tree: the issue and the node it hangs under
Visit(id, parent) == [id |-> id, parent |-> parent]

\* the listings one level below the frontier: one per dependency edge that
\* leaves a listed issue
Below(t, frontier) ==
    UNION {{Visit(c, n.id) : c \in DependsOn(t, n.id)} : n \in frontier}

\* breadth-first search without the visited set, cut off after one level per
\* dependency row and two more
RECURSIVE tree_levels_unvisited(_, _, _, _, _)
tree_levels_unvisited(t, frontier, visited, depth, max_depth) ==
    IF \/ frontier = {}
       \/ max_depth # NoDepth /\ depth > max_depth
       \/ depth > Cardinality(t.deps) + 2
    THEN {}
    ELSE {[id |-> n.id, parent |-> n.parent, depth |-> depth] : n \in frontier}
             \cup tree_levels_unvisited(t, Below(t, frontier), visited,
                                        depth + 1, max_depth)

\* breadth-first search from the frontier, one level per round, with an
\* explicit visited set of (parent, issue) pairs: an issue is listed once
\* under each listed issue that depends on it, and a pair seen before is not
\* entered again; truncation is inclusive: level max_depth is still entered
RECURSIVE tree_levels(_, _, _, _, _)
\* breadth-first search whose visited set holds issues: every issue is listed
\* once, under one of the issues that depend on it
RECURSIVE tree_levels_by_issue(_, _, _, _, _)
tree_levels_by_issue(t, frontier, visited, depth, max_depth) ==
    IF frontier = {} \/ (max_depth # NoDepth /\ depth > max_depth) THEN {}
    ELSE LET below == Below(t, frontier)
             next == {v \in below :
                        /\ v.id \notin {w.id : w \in visited}
                        /\ v.parent = CHOOSE p \in {w.parent :
                                          w \in {x \in below : x.id = v.id}} :
                                          TRUE}
         IN  {[id |-> n.id, parent |-> n.parent, depth |-> depth] :
                    n \in frontier}
                 \cup tree_levels_by_issue(t, next, visited \cup next,
                                           depth + 1, max_depth)

tree_levels(t, frontier, visited, depth, max_depth) ==
    IF frontier = {} \/ (max_depth # NoDepth /\ depth > max_depth) THEN {}
    ELSE LET next == Below(t, frontier) \ visited
         IN  {[id |-> n.id, parent |-> n.parent, depth |-> depth] :
                    n \in frontier}
                 \cup tree_levels(t, next, visited \cup next, depth + 1,
                                  max_depth)

\* (mutant) the search keeps no visited set
dep_tree_unvisited(t, id, max_depth) ==
    IF ~id_exists(t, id)
    THEN [ok |-> FALSE, err |-> "IssueNotFound", nodes |-> {}]
    ELSE [ok |-> TRUE, err |-> NONE,
          nodes |-> tree_levels_unvisited(t, {Visit(id, NONE)},
                                          {Visit(id, NONE)}, 0, max_depth)]

\* (mutant) the search lists every issue once
dep_tree_by_issue(t, id, max_depth) ==
    IF ~id_exists(t, id)
    THEN [ok |-> FALSE, err |-> "IssueNotFound", nodes |-> {}]
    ELSE [ok |-> TRUE, err |-> NONE,
          nodes |-> tree_levels_by_issue(t, {Visit(id, NONE)},
                                         {Visit(id, NONE)}, 0, max_depth)]

\* (mutant) truncation stops one level early
dep_tree_exclusive(t, id, max_depth) ==
    IF ~id_exists(t, id)
    THEN [ok |-> FALSE, err |-> "IssueNotFound", nodes |-> {}]
    ELSE [ok |-> TRUE, err |-> NONE,
          nodes |-> {n \in tree_levels(t, {Visit(id, NONE)},
                                       {Visit(id, NONE)}, 0, max_depth) :
                        max_depth = NoDepth \/ n.depth < max_depth}]

\* dep tree: IssueNotFound for a missing root, otherwise the listings of the
\* search from the root
dep_tree(t, id, max_depth) ==
    IF ~id_exists(t, id)
    THEN [ok |-> FALSE, err |-> "IssueNotFound", nodes |-> {}]
    ELSE [ok |-> TRUE, err |-> NONE,
          nodes |-> tree_levels(t, {Visit(id, NONE)}, {Visit(id, NONE)}, 0,
                                max_depth)]

----------------------------------------------------------------------------
(* Initial state *)

Idle == [cl |-> [op |-> NONE], original_type |-> NULL]

Init ==
    /\ db = EmptyTables
    /\ now = 1
    /\ jsonl = [i \in Ids |-> NoLine]
    /\ history = {}
    /\ tree = NoTree
    /\ lock = NONE
    /\ tx = NULL
    /\ pc = [p \in Procs |-> "idle"]
    /\ call = [p \in Procs |-> Idle]
    /\ ctx = [p \in Procs |-> NULL]
    /\ snap = [p \in Procs |-> NULL]

txvars == <<lock, tx, pc, call, ctx, snap>>

\* the call cl run to completion while the journal holds fewer than n events
Step(cl, n) ==
    /\ Len(db.events) < n
    /\ db' = RunCall(cl, db).t
    /\ UNCHANGED <<now, jsonl, history, tree, txvars>>

----------------------------------------------------------------------------
(* Spec: one step per storage call *)

CreateIssue ==
    \E cl \in Calls : cl.op = "create_issue" /\ Step(cl, MaxEvents)

DeleteIssue ==
    \E cl \in Calls : cl.op = "delete_issue" /\ Step(cl, MaxEvents)

AddDependency ==
    \E cl \in Calls : cl.op = "add_dependency" /\ Step(cl, MaxEvents)

RemoveDependency ==
    \E cl \in Calls : cl.op = "remove_dependency" /\ Step(cl, MaxEvents)

RemoveAllDependencies ==
    \E cl \in Calls : cl.op = "remove_all_dependencies" /\ Step(cl, MaxEvents)

AddLabel ==
    \E cl \in Calls : cl.op = "add_label" /\ Step(cl, MaxEvents)

\* a reader that finds the cache empty recomputes the blocked map and
\* INSERTs it
PopulateCache ==
    /\ db.cache = {}
    /\ BlockedMap(db) # {}
    /\ db' = [db EXCEPT !.cache = BlockedMap(db)]
    /\ UNCHANGED <<now, jsonl, history, tree, txvars>>

\* incremental flush: one line per dirty id, then the dirty rows are removed
Flush ==
    /\ db.dirty # {}
    /\ jsonl' = [i \in Ids |-> IF i \in DirtyIds(db) THEN Line(db, i)
                               ELSE jsonl[i]]
    /\ history' = backup_before_export(history, DefaultConfig, "issues",
                                        IF jsonl = [i \in Ids |-> NoLine]
                                        THEN NoFile ELSE TargetFile(jsonl), now)
    /\ db' = [db EXCEPT !.dirty = {}]
    /\ UNCHANGED <<now, tree, txvars>>

\* the issues of an externally authored file: an open task, a closed bug
\* with a label and a `blocks` edge to the other issue, and a tombstone
ExternalLines ==
    {RenderIssue(i, NewRow([status |-> "open", issue_type |-> "task", priority |-> 2,
                            defer_until |-> NoTime, created_at |-> 0,
                            updated_at |-> 0]), {}, {}) : i \in Ids}
    \cup {RenderIssue(i, NewRow([status |-> "closed", issue_type |-> "bug", priority |-> 2,
                                 defer_until |-> NoTime, created_at |-> 0,
                                 updated_at |-> 0]),
                      {"urgent"},
                      {[id |-> j, type |-> "blocks"] : j \in Ids \ {i}}) :
            i \in Ids}
    \cup {RenderIssue(i, [NewRow([status |-> "tombstone",
                                  issue_type |-> "task", priority |-> 2,
                                  defer_until |-> NoTime, created_at |-> 0,
                                  updated_at |-> 0])
                            EXCEPT !.deleted_at = 0, !.deleted_by = "bob",
                                   !.delete_reason = "dup",
                                   !.original_type = "task"], {}, {}) :
            i \in Ids}

\* the files given to an import: at most two lines, some malformed, no id on
\* two lines (spec 10 leaves the handling of a repeated id open)
Files ==
    LET L == ExternalLines \cup {MalformedLine}
    IN  {<<>>} \cup {<<l>> : l \in L}
        \cup {f \in {<<l1, l2>> : l1 \in L, l2 \in L} :
                \/ IsMalformed(f[1])
                \/ IsMalformed(f[2])
                \/ f[1]["id"] # f[2]["id"]}

\* sync --import-only of an externally authored file
Import ==
    \E file \in Files, lenient \in BOOLEAN :
        /\ Len(db.events) < MaxImportEvents
        /\ db' = import(db, file, lenient).t
        /\ UNCHANGED <<now, jsonl, history, tree, txvars>>

Next ==
    \/ CreateIssue
    \/ DeleteIssue
    \/ AddDependency
    \/ RemoveDependency
    \/ RemoveAllDependencies
    \/ AddLabel
    \/ PopulateCache

Spec == Init /\ [][Next]_vars

----------------------------------------------------------------------------
(* SpecReady: the calls that bear on readiness, with longer histories *)

\* creates of open, undeferred issues; `blocks` edges; removals; deletes
ReadinessCalls ==
    {cl \in Calls :
        \/ cl.op = "create_issue" /\ cl.issue.status = "open"
                                  /\ cl.issue.issue_type = "task"
                                  /\ cl.issue.defer_until = NoTime
        \/ cl.op = "add_dependency" /\ cl.dep_type = "blocks"
        \/ cl.op \in {"delete_issue", "remove_dependency"}}

CreateOpenIssue ==
    \E cl \in ReadinessCalls :
        cl.op = "create_issue" /\ Step(cl, MaxReadyEvents)

DeleteBlocker ==
    \E cl \in ReadinessCalls :
        cl.op = "delete_issue" /\ Step(cl, MaxReadyEvents)

AddBlocksDependency ==
    \E cl \in ReadinessCalls :
        cl.op = "add_dependency" /\ Step(cl, MaxReadyEvents)

RemoveBlocksDependency ==
    \E cl \in ReadinessCalls :
        cl.op = "remove_dependency" /\ Step(cl, MaxReadyEvents)

NextReady ==
    \/ CreateOpenIssue
    \/ DeleteBlocker
    \/ AddBlocksDependency
    \/ RemoveBlocksDependency
    \/ PopulateCache

SpecReady == Init /\ [][NextReady]_vars

\* the storage calls together with the JSONL flush
NextSync == Next \/ Flush

SpecSync == Init /\ [][NextSync]_vars

\* the storage calls together with imports
StorageCall == \E cl \in Calls : Step(cl, MaxImportEvents)

NextImport == StorageCall \/ Import

SpecImport == Init /\ [][NextImport]_vars

----------------------------------------------------------------------------
(* SpecHistory: backups, pruning and stray files in .br_history over time *)

Tick ==
    /\ now < MaxClock
    /\ now' = now + 1
    /\ UNCHANGED <<db, jsonl, history, tree, txvars>>

Backup ==
    \E config \in Configs, stem \in Stems,
       target \in {NoFile} \cup {TargetFile(c) : c \in Contents} :
        /\ history' = backup_before_export(history, config, stem, target, now)
        /\ UNCHANGED <<db, now, jsonl, tree, txvars>>

Keeps == 0..2

OlderThan == {NoDays, 1}

Prune ==
    \E keep \in Keeps, older_than_days \in OlderThan :
        /\ history' = prune_backups(history, keep, older_than_days, now)
        /\ UNCHANGED <<db, now, jsonl, tree, txvars>>

\* a file placed in the directory by hand, its name without a timestamp
\* (issues.not_a_timestamp.jsonl)
WriteStrayFile ==
    \E stem \in Stems, c \in Contents :
        /\ history' = write_backup(history, stem, c, NoTime)
        /\ UNCHANGED <<db, now, jsonl, tree, txvars>>

NextHistory == Tick \/ Backup \/ Prune \/ WriteStrayFile

SpecHistory == Init /\ [][NextHistory]_vars

----------------------------------------------------------------------------
(* SpecTree: dep tree commands over dependency graphs of five issues *)

TreeIds == {"A", "B", "C", "D", "E"}

MaxDepth == 3

\* the chain A -> B -> C -> D -> E
ChainEdges == <<<<"A", "B">>, <<"B", "C">>, <<"C", "D">>, <<"D", "E">>>>

\* the chain, then the edges that make the diamond A -> B -> D, A -> C -> D,
\* a cycle and a self-loop
TreeEdges ==
    ChainEdges \o <<<<"A", "C">>, <<"B", "D">>, <<"C", "A">>, <<"E", "E">>>>

TreeIdOrder == <<"A", "B", "C", "D", "E">>

TreeCreates ==
    [k \in 1..5 |->
        [op |-> "create_issue", actor |-> "alice",
         issue |-> [id |-> TreeIdOrder[k], status |-> "open",
                    issue_type |-> "task", priority |-> 2, defer_until |-> NoTime,
                    created_at |-> 0, updated_at |-> 0]]]

TreeDepAdd(e) ==
    [op |-> "add_dependency", id |-> e[1], depends_on_id |-> e[2],
     dep_type |-> "blocks", actor |-> "alice"]

\* br create, the five issues one after the other
TreeCreate ==
    \E k \in DOMAIN TreeCreates :
        /\ DOMAIN db.issues = {TreeIdOrder[j] : j \in 1..(k - 1)}
        /\ db' = RunCall(TreeCreates[k], db).t
        /\ UNCHANGED <<now, jsonl, history, tree, txvars>>

\* br dep add, the edges in the order of TreeEdges, any of them left out
TreeDepAdds ==
    \E k \in DOMAIN TreeEdges :
        /\ DOMAIN db.issues = TreeIds
        /\ \A d \in db.deps :
               \E j \in 1..(k - 1) :
                   TreeEdges[j] = <<d.issue_id, d.depends_on_id>>
        /\ db' = RunCall(TreeDepAdd(TreeEdges[k]), db).t
        /\ UNCHANGED <<now, jsonl, history, tree, txvars>>

DepTree ==
    \E id \in TreeIds \cup {"missing"}, max_depth \in 0..MaxDepth \cup {NoDepth} :
        /\ DOMAIN db.issues = TreeIds
        /\ tree' = LET r == dep_tree(db, id, max_depth)
                    IN  [id |-> id, max_depth |-> max_depth, ok |-> r.ok,
                         err |-> r.err, nodes |-> r.nodes]
        /\ UNCHANGED <<db, now, jsonl, history, txvars>>

NextTree == TreeCreate \/ TreeDepAdds \/ DepTree

SpecTree == Init /\ [][NextTree]_vars

----------------------------------------------------------------------------
(* SpecReopen: issues of every status, closed, reopened and deleted *)

MaxReopenEvents == 4

Statuses == {"open", "in_progress", "blocked", "closed"}

ReopenCalls ==
    [op : {"create_issue"}, actor : Actors,
     issue : {[id |-> i, status |-> st, issue_type |-> "task", priority |-> 2,
               defer_until |-> NoTime, created_at |-> 0, updated_at |-> 0] :
                 i \in Ids, st \in Statuses}]
    \cup [op : {"delete_issue"}, id : Ids, actor : Actors, reason : Reasons]
    \cup [op : {"close_issue", "reopen_issue"}, id : Ids, actor : Actors]

ReopenCreate ==
    \E cl \in ReopenCalls :
        cl.op = "create_issue" /\ Step(cl, MaxReopenEvents)

ReopenDelete ==
    \E cl \in ReopenCalls :
        cl.op = "delete_issue" /\ Step(cl, MaxReopenEvents)

Close ==
    \E cl \in ReopenCalls : cl.op = "close_issue" /\ Step(cl, MaxReopenEvents)

Reopen ==
    \E cl \in ReopenCalls :
        cl.op = "reopen_issue" /\ Step(cl, MaxReopenEvents)

NextReopen == ReopenCreate \/ ReopenDelete \/ Close \/ Reopen

SpecReopen == Init /\ [][NextReopen]_vars

----------------------------------------------------------------------------
(* SpecUnblock: the readiness calls together with close *)

CloseBlocker ==
    \E id \in Ids, actor \in Actors :
        Step([op |-> "close_issue", id |-> id, actor |-> actor],
             MaxReadyEvents)

NextUnblock == NextReady \/ CloseBlocker

SpecUnblock == Init /\ [][NextUnblock]_vars

----------------------------------------------------------------------------
(* SpecList: issues of several priorities and ages, closed ones, tombstones *)
(* and templates, as list and search see them                               *)

MaxListEvents == 2

\* ids, one of which contains the others
ListIds == {"a", "ab", "b"}

ListCalls ==
    [op : {"create_issue"}, actor : Actors,
     issue : {[id |-> i, status |-> st, issue_type |-> "task",
               priority |-> p, defer_until |-> NoTime, created_at |-> c,
               updated_at |-> c] :
                 i \in ListIds, st \in {"open", "closed"}, p \in {1, 2},
                 c \in {0, 2}}]
    \cup [op : {"delete_issue"}, id : ListIds, actor : Actors,
          reason : Reasons]

ListCreate ==
    \E cl \in ListCalls : cl.op = "create_issue" /\ Step(cl, MaxListEvents)

ListDelete ==
    \E cl \in ListCalls : cl.op = "delete_issue" /\ Step(cl, MaxListEvents)

\* a template row written through the connection the storage hands out:
\* INSERT INTO issues (..., is_template) VALUES (..., 1)
InsertTemplate ==
    \E cl \in ListCalls :
        /\ cl.op = "create_issue"
        /\ cl.issue.status = "open"
        /\ ~id_exists(db, cl.issue.id)
        /\ db' = [db EXCEPT !.issues =
                      (cl.issue.id :> [NewRow(cl.issue)
                                         EXCEPT !.is_template = TRUE]) @@ @]
        /\ UNCHANGED <<now, jsonl, history, tree, txvars>>

NextList == ListCreate \/ ListDelete \/ InsertTemplate

SpecList == Init /\ [][NextList]_vars

----------------------------------------------------------------------------
(* SpecFields: callers that fill every field of the Issue they create *)

MaxFieldEvents == 3

\* Issue values with the fields create_issue names and those it does not
FullIssues ==
    [id : Ids, status : {"open", "closed"}, issue_type : {"task"},
     priority : {1, 2}, defer_until : {NoTime}, created_at : {0},
     updated_at : {0, 2},
     closed_at : {NoTime, 1}, deleted_at : {NoTime, 1},
     deleted_by : {NULL, "bob"}, delete_reason : {"dup"},
     original_type : {"bug"}, is_template : BOOLEAN,
     labels : {{}, {"urgent"}},
     dependencies : {{}, {[id |-> "b", type |-> "blocks"]}}]

FieldsCreate ==
    \E issue \in FullIssues :
        Step([op |-> "create_issue", issue |-> issue, actor |-> "alice"],
             MaxFieldEvents)

FieldsDelete ==
    \E id \in Ids :
        Step([op |-> "delete_issue", id |-> id, actor |-> "alice",
              reason |-> "dup"], MaxFieldEvents)

FieldsAddLabel ==
    \E id \in Ids :
        Step([op |-> "add_label", id |-> id, label |-> "urgent",
              actor |-> "alice"], MaxFieldEvents)

NextFields == FieldsCreate \/ FieldsDelete \/ FieldsAddLabel

SpecFields == Init /\ [][NextFields]_vars

----------------------------------------------------------------------------
(* SpecStamp: callers whose issues carry an updated_at of their own *)

MaxStampEvents == 3

\* Issue.updated_at as the caller filled it in: before and after the clock
\* of the storage
Stamps == {0, 2}

StampCalls ==
    [op : {"create_issue"}, actor : Actors,
     issue : {[id |-> i, status |-> "open", issue_type |-> "task", priority |-> 2,
               defer_until |-> NoTime, created_at |-> 0, updated_at |-> u] :
                 i \in Ids, u \in Stamps}]
    \cup [op : {"delete_issue"}, id : Ids, actor : Actors, reason : Reasons]
    \cup [op : {"add_label"}, id : Ids, label : LabelNames, actor : Actors]

StampCreate ==
    \E cl \in StampCalls : cl.op = "create_issue" /\ Step(cl, MaxStampEvents)

StampDelete ==
    \E cl \in StampCalls : cl.op = "delete_issue" /\ Step(cl, MaxStampEvents)

StampAddLabel ==
    \E cl \in StampCalls : cl.op = "add_label" /\ Step(cl, MaxStampEvents)

NextStamp == StampCreate \/ StampDelete \/ StampAddLabel \/ Tick

SpecStamp == Init /\ [][NextStamp]_vars

----------------------------------------------------------------------------
(* SpecTx: two processes, one step per statement of mutate *)

\* the calls the processes make: the storage calls on open issues and
\* `blocks` edges, and the failing body of the rollback test
TxCalls ==
    {cl \in Calls :
        \/ cl.op = "create_issue" /\ cl.issue.status = "open"
                                  /\ cl.issue.defer_until = NoTime
        \/ cl.op = "add_dependency" /\ cl.dep_type = "blocks"
        \/ cl.op \in {"delete_issue", "remove_dependency", "add_label"}}
    \cup [op : {"test_fail"}, id : Ids, actor : Actors]

TxReset(p) ==
    /\ call' = [call EXCEPT ![p] = Idle]
    /\ ctx' = [ctx EXCEPT ![p] = NULL]
    /\ snap' = [snap EXCEPT ![p] = NULL]
    /\ pc' = [pc EXCEPT ![p] = "idle"]

\* the call is made; delete_issue reads the issue (get_issue) before it
\* opens its transaction and fails with IssueNotFound if there is none
TxStart(p) ==
    \E cl \in TxCalls :
        /\ pc[p] = "idle"
        /\ Len(db.events) < MaxTxEvents
        /\ cl.op = "delete_issue" => id_exists(db, cl.id)
        /\ call' = [call EXCEPT ![p] =
                [cl |-> cl,
                 original_type |-> IF cl.op = "delete_issue"
                                   THEN get_issue(db, cl.id).issue_type
                                   ELSE NULL]]
        /\ pc' = [pc EXCEPT ![p] = "begin"]
        /\ UNCHANGED <<db, now, jsonl, history, tree, lock, tx, ctx, snap>>

\* (mutant) BEGIN DEFERRED: the transaction opens without waiting for the
\* write lock
TxBeginDeferred(p) ==
    /\ pc[p] = "begin"
    /\ lock' = p
    /\ tx' = db
    /\ snap' = [snap EXCEPT ![p] = db]
    /\ ctx' = [ctx EXCEPT ![p] = NewContext(call[p].cl.op, call[p].cl.actor)]
    /\ pc' = [pc EXCEPT ![p] = "body"]
    /\ UNCHANGED <<db, now, jsonl, history, tree, call>>

\* BEGIN IMMEDIATE: take the write lock, or wait for it
TxBegin(p) ==
    /\ pc[p] = "begin"
    /\ lock = NONE
    /\ lock' = p
    /\ tx' = db
    /\ snap' = [snap EXCEPT ![p] = db]
    /\ ctx' = [ctx EXCEPT ![p] = NewContext(call[p].cl.op, call[p].cl.actor)]
    /\ pc' = [pc EXCEPT ![p] = "body"]
    /\ UNCHANGED <<db, now, jsonl, history, tree, call>>

\* the busy-timeout expires while another connection holds the lock
TxBusy(p) ==
    /\ pc[p] = "begin"
    /\ lock # NONE
    /\ TxReset(p)
    /\ UNCHANGED <<db, now, jsonl, history, tree, lock, tx>>

\* f(&tx, &mut ctx)?
TxBody(p) ==
    /\ pc[p] = "body"
    /\ LET r == RunBody(call[p].cl, tx, ctx[p], call[p].original_type)
       IN  /\ tx' = r.t
           /\ ctx' = [ctx EXCEPT ![p] = r.ctx]
           /\ pc' = [pc EXCEPT ![p] = IF r.ok THEN "events" ELSE "failed"]
    /\ UNCHANGED <<db, now, jsonl, history, tree, lock, call, snap>>

TxWriteEvents(p) ==
    /\ pc[p] = "events"
    /\ tx' = write_events(tx, ctx[p])
    /\ pc' = [pc EXCEPT ![p] = "dirty"]
    /\ UNCHANGED <<db, now, jsonl, history, tree, lock, call, ctx, snap>>

TxMarkDirtyOutsideTx(p) ==
    /\ pc[p] = "dirty"
    /\ db' = write_dirty(db, ctx[p])
    /\ tx' = write_dirty(tx, ctx[p])
    /\ pc' = [pc EXCEPT ![p] = "inval"]
    /\ UNCHANGED <<now, jsonl, history, tree, lock, call, ctx, snap>>

TxMarkDirty(p) ==
    /\ pc[p] = "dirty"
    /\ tx' = write_dirty(tx, ctx[p])
    /\ pc' = [pc EXCEPT ![p] = "inval"]
    /\ UNCHANGED <<db, now, jsonl, history, tree, lock, call, ctx, snap>>

TxInvalidate(p) ==
    /\ pc[p] = "inval"
    /\ tx' = write_invalidate(tx, ctx[p])
    /\ pc' = [pc EXCEPT ![p] = "commit"]
    /\ UNCHANGED <<db, now, jsonl, history, tree, lock, call, ctx, snap>>

\* tx.commit(): the working copy becomes the committed tables
TxCommit(p) ==
    /\ pc[p] = "commit"
    /\ db' = tx
    /\ tx' = NULL
    /\ lock' = NONE
    /\ TxReset(p)
    /\ UNCHANGED <<now, jsonl, history, tree>>

\* a statement after the body, or the commit, returns an error (`?`)
TxFail(p) ==
    /\ pc[p] \in {"events", "dirty", "inval", "commit"}
    /\ pc' = [pc EXCEPT ![p] = "failed"]
    /\ UNCHANGED <<db, now, jsonl, history, tree, lock, tx, call, ctx, snap>>

TxRollbackKeepsWrites(p) ==
    /\ pc[p] = "failed"
    /\ db' = tx
    /\ tx' = NULL
    /\ lock' = NONE
    /\ TxReset(p)
    /\ UNCHANGED <<now, jsonl, history, tree>>

\* the Transaction is dropped without commit: ROLLBACK
TxRollback(p) ==
    /\ pc[p] = "failed"
    /\ tx' = NULL
    /\ lock' = NONE
    /\ TxReset(p)
    /\ UNCHANGED <<db, now, jsonl, history, tree>>

NextTx ==
    \E p \in Procs :
        \/ TxStart(p)
        \/ TxBegin(p)
        \/ TxBusy(p)
        \/ TxBody(p)
        \/ TxWriteEvents(p)
        \/ TxMarkDirty(p)
        \/ TxInvalidate(p)
        \/ TxCommit(p)
        \/ TxFail(p)
        \/ TxRollback(p)

SpecTx == Init /\ [][NextTx]_vars

----------------------------------------------------------------------------
(* SpecTxOrder: two processes whose mutations record one or two events *)

MaxOrderEvents == 3

OrderCalls ==
    [op : {"create_labelled"}, actor : Actors, label : LabelNames,
     issue : {[id |-> i, status |-> "open", issue_type |-> "task", priority |-> 2,
               defer_until |-> NoTime, created_at |-> 0, updated_at |-> 0] :
                 i \in Ids}]
    \cup [op : {"delete_issue"}, id : Ids, actor : Actors, reason : Reasons]
    \cup [op : {"add_dependency"}, id : Ids, depends_on_id : Ids,
          dep_type : {"blocks"}, actor : Actors]

TxStartOrder(p) ==
    \E cl \in OrderCalls :
        /\ pc[p] = "idle"
        /\ Len(db.events) < MaxOrderEvents
        /\ cl.op = "delete_issue" => id_exists(db, cl.id)
        /\ call' = [call EXCEPT ![p] =
                [cl |-> cl,
                 original_type |-> IF cl.op = "delete_issue"
                                   THEN get_issue(db, cl.id).issue_type
                                   ELSE NULL]]
        /\ pc' = [pc EXCEPT ![p] = "begin"]
        /\ UNCHANGED <<db, now, jsonl, history, tree, lock, tx, ctx, snap>>

NextTxOrder ==
    \E p \in Procs :
        \/ TxStartOrder(p)
        \/ TxBegin(p)
        \/ TxBusy(p)
        \/ TxBody(p)
        \/ TxWriteEvents(p)
        \/ TxMarkDirty(p)
        \/ TxInvalidate(p)
        \/ TxCommit(p)
        \/ TxFail(p)
        \/ TxRollback(p)

SpecTxOrder == Init /\ [][NextTxOrder]_vars

----------------------------------------------------------------------------
(* SpecTxDelete: a process deletes an issue while another imports it *)

MaxDeleteEvents == 3

\* a file that holds the issue as an open bug
RetypedFile(i) ==
    <<RenderIssue(i, NewRow([status |-> "open", issue_type |-> "bug",
                             priority |-> 2, defer_until |-> NoTime,
                             created_at |-> 0, updated_at |-> 0]), {}, {})>>

DeleteCalls ==
    [op : {"create_issue"}, actor : Actors,
     issue : {[id |-> i, status |-> "open", issue_type |-> "task",
               priority |-> 2, defer_until |-> NoTime, created_at |-> 0,
               updated_at |-> 0] : i \in Ids}]
    \cup [op : {"delete_issue"}, id : Ids, actor : Actors, reason : Reasons]
    \cup [op : {"import"}, actor : {"import"}, lenient : {FALSE},
          file : {RetypedFile(i) : i \in Ids}]

TxStartDelete(p) ==
    \E cl \in DeleteCalls :
        /\ pc[p] = "idle"
        /\ Len(db.events) < MaxDeleteEvents
        /\ cl.op = "delete_issue" => id_exists(db, cl.id)
        /\ call' = [call EXCEPT ![p] =
                [cl |-> cl,
                 original_type |-> IF cl.op = "delete_issue"
                                   THEN get_issue(db, cl.id).issue_type
                                   ELSE NULL]]
        /\ pc' = [pc EXCEPT ![p] = "begin"]
        /\ UNCHANGED <<db, now, jsonl, history, tree, lock, tx, ctx, snap>>

NextTxDelete ==
    \E p \in Procs :
        \/ TxStartDelete(p)
        \/ TxBegin(p)
        \/ TxBusy(p)
        \/ TxBody(p)
        \/ TxWriteEvents(p)
        \/ TxMarkDirty(p)
        \/ TxInvalidate(p)
        \/ TxCommit(p)
        \/ TxFail(p)
        \/ TxRollback(p)

SpecTxDelete == Init /\ [][NextTxDelete]_vars

----------------------------------------------------------------------------
(* Properties of the storage calls (checked under Spec) *)

NewEvents(t, t2) == {t2.events[k] : k \in (Len(t.events) + 1)..Len(t2.events)}

DataChanged(t, t2) ==
    t2.issues # t.issues \/ t2.deps # t.deps \/ t2.labels # t.labels

HasEvent(t, event_type) ==
    \E k \in 1..Len(t.events) : t.events[k].event_type = event_type

\* C3: every successful create_issue, delete_issue, add_dependency,
\* remove_dependency, remove_all_dependencies or add_label that changes a row
\* of issues, dependencies or labels commits, together with that change, at
\* least one new event carrying the call's actor and the call's issue id.
C3_MutationsAreJournaled ==
    \A cl \in Calls :
        LET r == RunCall(cl, db)
        IN  (r.ok /\ DataChanged(db, r.t))
                => \E e \in NewEvents(db, r.t) :
                        e.actor = cl.actor /\ e.issue_id = CallId(cl)

\* a state in which a dependency removal that removed a row and a label
\* insertion have been committed and journaled
C3_Witness ==
    /\ HasEvent(db, "dependency_added")
    /\ HasEvent(db, "dependency_removed")
    /\ HasEvent(db, "label_added")
    /\ db.labels # {}

\* the `blocks` edges between issues that exist and are not tombstones
LiveBlocks(t) ==
    {d \in t.deps :
        /\ d.type = "blocks"
        /\ d.issue_id \in DOMAIN t.issues
        /\ d.depends_on_id \in DOMAIN t.issues
        /\ t.issues[d.issue_id].status # "tombstone"
        /\ t.issues[d.depends_on_id].status # "tombstone"}

RECURSIVE ReachN(_, _, _)
\* ids reachable from the set s over edges E by 0..n steps
ReachN(E, s, n) ==
    IF n = 0 THEN s
    ELSE ReachN(E, s \cup {d.depends_on_id : d \in {e \in E : e.issue_id \in s}},
                n - 1)

\* ids reachable from i by at least one edge of E
Reach(E, i) ==
    ReachN(E, {d.depends_on_id : d \in {e \in E : e.issue_id = i}},
           Cardinality(Ids))

Acyclic(t) == \A i \in Ids : i \notin Reach(LiveBlocks(t), i)

\* C4: the graph of `blocks` edges over non-tombstone issues never has a
\* cycle, and an add_dependency whose edge would close one fails and leaves
\* the dependencies table as it was.
C4_BlocksGraphAcyclic ==
    /\ Acyclic(db)
    /\ \A cl \in Calls :
        (cl.op = "add_dependency"
            /\ ~Acyclic([db EXCEPT !.deps = @ \cup
                    {[issue_id |-> cl.id, depends_on_id |-> cl.depends_on_id,
                      type |-> cl.dep_type]}]))
        => (~RunCall(cl, db).ok /\ RunCall(cl, db).t.deps = db.deps)

TombstoneFieldsSet(row) ==
    /\ row.deleted_at # NoTime
    /\ row.deleted_by # NULL
    /\ row.delete_reason # NULL
    /\ row.original_type # NULL

TombstoneFieldsNull(row) ==
    /\ row.deleted_at = NoTime
    /\ row.deleted_by = NULL
    /\ row.delete_reason = NULL
    /\ row.original_type = NULL

\* C5: an issue is a tombstone exactly when deleted_at, deleted_by,
\* delete_reason and original_type are all set, and every other issue has all
\* four NULL.
C5_TombstoneFields ==
    \A i \in DOMAIN db.issues :
        /\ (db.issues[i].status = "tombstone")
                <=> TombstoneFieldsSet(db.issues[i])
        /\ (db.issues[i].status # "tombstone")
                => TombstoneFieldsNull(db.issues[i])

\* the ready set as the claim words it, from the primary tables alone
ClaimedReady(t) ==
    {i \in DOMAIN t.issues :
        /\ t.issues[i].status \notin {"closed", "tombstone"}
        /\ ~\E d \in t.deps :
                /\ d.issue_id = i
                /\ d.type = "blocks"
                /\ d.depends_on_id \in DOMAIN t.issues
                /\ t.issues[d.depends_on_id].status \notin {"closed", "tombstone"}
        /\ (t.issues[i].defer_until = NoTime \/ t.issues[i].defer_until <= now)
        /\ ~t.issues[i].is_template}

\* C6: the ready set is exactly the non-terminal, non-template, non-deferred
\* issues without a `blocks` edge to a non-terminal target, whether it is
\* derived from the primary tables or read through blocked_issues_cache.
C6_ReadyMatchesDerivation ==
    /\ ReadyWith(db, BlockedMap(db)) = ClaimedReady(db)
    /\ ReadyQuery(db) = ClaimedReady(db)

\* C7: whenever blocked_issues_cache is non-empty it is exactly the blocked
\* map derived from the committed tables, after every interleaving of cache
\* population and committed mutations.
C7_CacheMatchesBlockedMap ==
    db.cache # {} => db.cache = BlockedMap(db)

\* C8: every committed create, delete, dependency add and dependency remove
\* that removed a row leaves blocked_issues_cache empty.
C8_ReadinessMutationsClearCache ==
    \A cl \in Calls :
        LET r == RunCall(cl, db)
        IN  (/\ r.ok
             /\ \/ cl.op \in {"create_issue", "delete_issue", "add_dependency"}
                \/ cl.op = "remove_dependency" /\ r.res = TRUE)
            => r.t.cache = {}

\* does the body of the call, run on the current tables, ask for the cache
\* to be invalidated
Requested(cl) ==
    RunBody(cl, db, NewContext(cl.op, cl.actor),
            IF CallId(cl) \in DOMAIN db.issues
            THEN db.issues[CallId(cl)].issue_type ELSE NULL
           ).ctx.invalidate_blocked_cache

\* C9: a committed mutation whose body requested cache invalidation leaves
\* blocked_issues_cache with zero rows whatever it held before; one whose
\* body did not request it leaves the cache rows unchanged.
C9_InvalidationOnRequestOnly ==
    \A cl \in Calls :
        LET r == RunCall(cl, db)
        IN  r.ok => /\ Requested(cl) => r.t.cache = {}
                    /\ ~Requested(cl) => r.t.cache = db.cache

\* a populated cache, with a call that requests invalidation and one that
\* does not both about to commit
C9_Witness ==
    /\ db.cache # {}
    /\ \E cl \in Calls : RunCall(cl, db).ok /\ Requested(cl)
                         /\ RunCall(cl, db).t.cache = {}
    /\ \E cl \in Calls : RunCall(cl, db).ok /\ ~Requested(cl)
                         /\ DataChanged(db, RunCall(cl, db).t)

----------------------------------------------------------------------------
(* Properties of the dirty set (checked under SpecSync) *)

\* C10: an issue whose row, label set or outgoing dependency list a committed
\* mutation changed since the last flush is in dirty_issues: a clean issue's
\* exported line equals its current line, a call that changes an issue's line
\* leaves it dirty, and no call removes a dirty row; dirty_issues holds at
\* most one row per issue id.
C10_DirtyCoversStaleIssues ==
    /\ \A r1 \in db.dirty, r2 \in db.dirty :
            r1.issue_id = r2.issue_id => r1 = r2
    /\ \A i \in Ids : i \notin DirtyIds(db) => jsonl[i] = Line(db, i)
    /\ \A cl \in Calls :
        LET r == RunCall(cl, db)
        IN  /\ DirtyIds(db) \subseteq DirtyIds(r.t)
            /\ \A i \in Ids :
                    Line(r.t, i) # Line(db, i) => i \in DirtyIds(r.t)

\* an issue exported by a flush and changed again since (dirty, its line
\* differs from the exported one) next to an exported issue that is clean
C10_Witness ==
    \E i \in Ids, j \in Ids :
        /\ jsonl[i] # NoLine
        /\ i \in DirtyIds(db)
        /\ jsonl[i] # Line(db, i)
        /\ jsonl[j] # NoLine
        /\ j \notin DirtyIds(db)

----------------------------------------------------------------------------
(* Properties of mutate's transaction (checked under SpecTx) *)

\* C1: when a mutate call fails - in its body or in any statement after it,
\* the commit included - the step that returns the error leaves the committed
\* tables exactly as they were when the call began, whatever the body wrote.
C1_FailedMutateRollsBack ==
    [][\A p \in Procs :
          pc[p] = "failed" /\ pc'[p] = "idle" => db' = snap[p] /\ tx' = NULL]_vars

\* a call is failing after it wrote an issue row, an event and a dirty mark
C1_Witness ==
    \E p \in Procs :
        /\ pc[p] = "failed"
        /\ tx.issues # snap[p].issues
        /\ tx.events # snap[p].events
        /\ tx.dirty # snap[p].dirty

\* what the call of process p does to the committed tables when it runs alone
AtomicEffect(p) ==
    mutate(db, RunBody(call[p].cl, db,
                       NewContext(call[p].cl.op, call[p].cl.actor),
                       call[p].original_type))

\* C2: while a mutation is in progress the committed tables show none of its
\* effects, and the only step that changes them is a commit, which makes the
\* body's rows, the events, the dirty marks and the invalidation visible at once.
C2_CommitIsAllOrNothing ==
    /\ [](\A p \in Procs : lock = p => db = snap[p])
    /\ [][db' # db =>
            \E p \in Procs :
                /\ pc[p] = "commit"
                /\ AtomicEffect(p).ok
                /\ db' = AtomicEffect(p).t]_vars

\* a call is about to commit rows, events and dirty marks that no other
\* connection can see yet, while the other process waits for the lock
C2_Witness ==
    \E p \in Procs, q \in Procs :
        /\ pc[p] = "commit" /\ pc[q] = "begin"
        /\ tx.issues # db.issues
        /\ tx.events # db.events
        /\ tx.dirty # db.dirty

----------------------------------------------------------------------------
(* The events journal *)

IsPrefix(s, t) == Len(s) <= Len(t) /\ SubSeq(t, 1, Len(s)) = s

\* C14: the events journal is append-only: every step leaves the earlier
\* journal as a prefix of the new one, and every newly committed event has an
\* id strictly greater than the id of every event committed before it.
C14_JournalAppendOnly ==
    [][/\ IsPrefix(db.events, db'.events)
       /\ \A k \in (Len(db.events) + 1)..Len(db'.events) :
            /\ \A j \in 1..Len(db.events) : db'.events[k].id > db.events[j].id
            /\ \A j \in (Len(db.events) + 1)..(k - 1) :
                    db'.events[k].id > db'.events[j].id]_vars

\* three calls of different kinds have appended to the journal
C14_Witness ==
    /\ Len(db.events) = 3
    /\ db.events[1].event_type = "created"
    /\ db.events[2].event_type = "dependency_added"
    /\ db.events[3].event_type = "deleted"

----------------------------------------------------------------------------
(* delete_issue *)

\* C15: after a successful delete_issue(id, actor, reason), get_issue(id)
\* still returns the issue, with status tombstone, deleted_by = actor,
\* delete_reason = reason and original_type = its issue_type before the
\* deletion, and neither list nor search with default filters returns it.
C15_DeleteLeavesHiddenTombstone ==
    \A cl \in Calls :
        cl.op = "delete_issue" =>
            LET r == RunCall(cl, db)
            IN  r.ok =>
                    /\ id_exists(r.t, cl.id)
                    /\ get_issue(r.t, cl.id).status = "tombstone"
                    /\ get_issue(r.t, cl.id).deleted_by = cl.actor
                    /\ get_issue(r.t, cl.id).delete_reason = cl.reason
                    /\ get_issue(r.t, cl.id).original_type
                            = get_issue(db, cl.id).issue_type
                    /\ cl.id \notin list_issues(r.t, DefaultFilters)
                    /\ \A q \in Ids \cup {""} :
                            cl.id \notin search_issues(r.t, q, DefaultFilters)

\* a bug has been deleted next to an issue that the default list still shows
C15_Witness ==
    \E i \in DOMAIN db.issues, j \in DOMAIN db.issues :
        /\ db.issues[i].status = "tombstone"
        /\ db.issues[i].deleted_by = "alice"
        /\ db.issues[i].original_type = "bug"
        /\ HasEvent(db, "deleted")
        /\ list_issues(db, DefaultFilters) = {j}

\* the columns of an issue row that delete_issue may change
DeleteColumns ==
    {"status", "deleted_at", "deleted_by", "delete_reason", "original_type",
     "updated_at"}

\* C16: delete_issue(id) changes only the target's status, deleted_at,
\* deleted_by, delete_reason, original_type and updated_at: every other
\* column of the row (created_at and issue_type among them), the labels, the
\* dependency rows, the earlier events and all other issues stay as they were.
C16_DeleteFrame ==
    \A cl \in Calls :
        cl.op = "delete_issue" =>
            LET r == RunCall(cl, db)
            IN  r.ok =>
                    /\ DOMAIN r.t.issues = DOMAIN db.issues
                    /\ \A i \in DOMAIN db.issues :
                            i # cl.id => r.t.issues[i] = db.issues[i]
                    /\ \A f \in DOMAIN db.issues[cl.id] :
                            f \notin DeleteColumns
                                => r.t.issues[cl.id][f] = db.issues[cl.id][f]
                    /\ r.t.labels = db.labels
                    /\ r.t.deps = db.deps
                    /\ IsPrefix(db.events, r.t.events)

\* an issue that a dependency row mentions has been deleted and its row
\* shows the later update time
C16_Witness ==
    \E i \in DOMAIN db.issues :
        /\ db.issues[i].status = "tombstone"
        /\ db.issues[i].deleted_by # NULL
        /\ db.issues[i].updated_at > db.issues[i].created_at
        /\ \E d \in db.deps : d.issue_id = i \/ d.depends_on_id = i

----------------------------------------------------------------------------
(* create_issue *)

\* C17: create_issue with an id that is already in the issues table, a
\* tombstone's id included, fails and leaves the existing row, the events
\* journal and dirty_issues unchanged.
C17_CreateRejectsExistingId ==
    \A cl \in Calls :
        (cl.op = "create_issue" /\ id_exists(db, cl.issue.id)) =>
            LET r == RunCall(cl, db)
            IN  /\ ~r.ok
                /\ r.t.issues = db.issues
                /\ r.t.events = db.events
                /\ r.t.dirty = db.dirty

\* the table holds a deleted issue and a live one, and the dirty set has been
\* written, so a colliding create has something to overwrite
C17_Witness ==
    \E i \in DOMAIN db.issues, j \in DOMAIN db.issues :
        /\ db.issues[i].status = "tombstone" /\ db.issues[i].deleted_by # NULL
        /\ db.issues[j].status = "open"
        /\ {i, j} \subseteq DirtyIds(db)

----------------------------------------------------------------------------
(* add_dependency *)

Parents(t, i) ==
    {d \in t.deps : d.issue_id = i /\ d.type = "parent-child"}

\* C18: every issue has at most one parent-child dependency row naming it as
\* the child, and an add_dependency of type parent-child for an issue that
\* already has a parent fails and inserts nothing.
C18_AtMostOneParent ==
    /\ \A i \in Ids : Cardinality(Parents(db, i)) <= 1
    /\ \A cl \in Calls :
        (/\ cl.op = "add_dependency"
         /\ cl.dep_type = "parent-child"
         /\ Parents(db, cl.id) # {}) =>
            LET r == RunCall(cl, db)
            IN  ~r.ok /\ r.t.deps = db.deps

\* C19: add_dependency(x, x, type) is rejected for every type: it returns an
\* error, inserts no row, records no event, marks nothing dirty and leaves the
\* cache alone.
C19_SelfEdgeRejected ==
    \A cl \in Calls :
        (cl.op = "add_dependency" /\ cl.id = cl.depends_on_id) =>
            LET r == RunCall(cl, db)
            IN  /\ ~r.ok
                /\ r.t.deps = db.deps
                /\ r.t.events = db.events
                /\ r.t.dirty = db.dirty
                /\ r.t.cache = db.cache

\* C20: add_dependency with a source or target id that names no issue fails
\* and inserts no edge and no event, so both endpoints of every dependency
\* row exist in the issues table.
C20_DependencyEndpointsExist ==
    /\ \A d \in db.deps :
        d.issue_id \in DOMAIN db.issues /\ d.depends_on_id \in DOMAIN db.issues
    /\ \A cl \in Calls :
        (/\ cl.op = "add_dependency"
         /\ ~(id_exists(db, cl.id) /\ id_exists(db, cl.depends_on_id))) =>
            LET r == RunCall(cl, db)
            IN  ~r.ok /\ r.t.deps = db.deps /\ r.t.events = db.events

----------------------------------------------------------------------------
(* Flush and import (checked under SpecImport) *)

C12_ReimportIsNoOp ==
    \A file \in Files, lenient \in BOOLEAN :
        LET r1 == import(db, file, lenient)
        IN  r1.ok =>
                LET r2 == import(r1.t, file, lenient)
                IN  /\ r2.ok
                    /\ r2.t = r1.t
                    /\ r2.res.inserted = 0
                    /\ r2.res.updated = 0
                    /\ r2.res.skipped = Len(file)

\* an import has inserted one issue and updated another
C12_Witness ==
    \E j \in 1..Len(db.events), k \in 1..Len(db.events) :
        /\ db.events[j].actor = "import" /\ db.events[j].event_type = "created"
        /\ db.events[k].actor = "import" /\ db.events[k].event_type = "updated"

HasMalformed(file) == \E k \in 1..Len(file) : IsMalformed(file[k])

\* the well-formed lines of a file, in order
WellFormedLines(file) ==
    LET Good(line) == ~IsMalformed(line)
    IN  SelectSeq(file, Good)

\* C13: in default mode an import of a file with a malformed line fails with
\* ParseError and leaves the database as it was, also when valid lines come
\* first; in lenient mode the valid lines are applied and the malformed ones
\* counted.
C13_MalformedLineAborts ==
    \A file \in Files :
        HasMalformed(file) =>
            LET strict  == import(db, file, FALSE)
                lenient == import(db, file, TRUE)
            IN  /\ ~strict.ok
                /\ strict.res = "ParseError"
                /\ strict.t = db
                /\ lenient.ok
                /\ lenient.res.malformed
                        = Len(file) - Len(WellFormedLines(file))
                /\ lenient.t = import(db, WellFormedLines(file), FALSE).t

\* an import has run on a database in which a valid line ahead of a malformed
\* one would both insert an absent issue and update a present one
C13_Witness ==
    /\ \E k \in 1..Len(db.events) : db.events[k].actor = "import"
    /\ \E i \in Ids : i \notin DOMAIN db.issues
    /\ \E i \in DOMAIN db.issues : db.issues[i].status = "open"

----------------------------------------------------------------------------
(* add_label *)

\* C21: add_label(id, l) with l already attached returns false and leaves
\* labels, events and dirty_issues unchanged; with l absent it inserts the
\* label, records exactly one label_added event, marks id dirty and returns
\* true; so the same add applied twice ends with the label set and the event
\* count of applying it once.
C21_AddLabelIdempotent ==
    \A cl \in Calls :
        cl.op = "add_label" =>
            LET r  == RunCall(cl, db)
                r2 == RunCall(cl, r.t)
            IN  /\ r.ok
                /\ <<cl.id, cl.label>> \in db.labels =>
                        /\ r.res = FALSE
                        /\ r.t.labels = db.labels
                        /\ r.t.events = db.events
                        /\ r.t.dirty = db.dirty
                /\ <<cl.id, cl.label>> \notin db.labels =>
                        /\ r.res = TRUE
                        /\ r.t.labels = db.labels \cup {<<cl.id, cl.label>>}
                        /\ Len(r.t.events) = Len(db.events) + 1
                        /\ r.t.events[Len(r.t.events)].event_type = "label_added"
                        /\ r.t.events[Len(r.t.events)].issue_id = cl.id
                        /\ cl.id \in DirtyIds(r.t)
                /\ r2.ok
                /\ r2.res = FALSE
                /\ r2.t.labels = r.t.labels
                /\ Len(r2.t.events) = Len(r.t.events)

\* one issue carries the label and the other does not, so both cases of the
\* call occur
C21_Witness ==
    /\ HasEvent(db, "label_added")
    /\ \E i \in Ids, j \in Ids, l \in LabelNames :
        <<i, l>> \in db.labels /\ <<j, l>> \notin db.labels

----------------------------------------------------------------------------
(* Writers contending for the write lock (checked under SpecTx) *)

\* process p has a write transaction open
InTransaction(p) ==
    pc[p] \in {"body", "events", "dirty", "inval", "commit", "failed"}

\* C22: at most one write transaction is open at a time and its owner holds
\* the write lock from BEGIN on; a writer whose BEGIN times out on the lock
\* returns without having run its body and without touching the committed
\* tables, the open transaction of the other writer or the lock.
C22_OneWriterAtATime ==
    /\ [](/\ \A p \in Procs, q \in Procs :
                InTransaction(p) /\ InTransaction(q) => p = q
          /\ \A p \in Procs : InTransaction(p) => lock = p)
    /\ [][\A p \in Procs :
            pc[p] = "begin" /\ pc'[p] = "idle"
                => db' = db /\ tx' = tx /\ lock' = lock]_vars

\* one writer is inside its body, with rows written that are not committed,
\* while the other writer waits at BEGIN
C22_Witness ==
    \E p \in Procs, q \in Procs :
        /\ pc[p] = "events" /\ lock = p /\ tx # db
        /\ pc[q] = "begin" /\ call[q].cl.op = "add_dependency"

----------------------------------------------------------------------------
(* History backups *)

\* the call skips the backup: the most recent backup of the stem has the
\* target's bytes
Deduplicated(h, stem, c) ==
    LET listed == list_backups(h, stem)
    IN  listed # <<>> /\ listed[1].content = c

Retained(h, config, stem, t) ==
    LET kept == list_backups(h, stem)
    IN  /\ \A f \in Range(kept) : t - f.ts <= config.max_age_days
        /\ Len(kept) <= config.max_count

\* the original wording of C24: after every enabled backup_before_export,
\* the stem holds no backup older than max_age_days and at most max_count
C24_RetentionAfterEveryCall ==
    \A config \in Configs, stem \in Stems, c \in Contents :
        config.enabled =>
            Retained(backup_before_export(history, config, stem,
                                          TargetFile(c), now),
                     config, stem, now)

\* C24 (amended): after every enabled backup_before_export that writes a
\* backup, no backup of the stem is older than max_age_days, at most
\* max_count backups of the stem remain, every kept one is at least as new
\* as every deleted one, and the files of other stems are untouched.
C24_RetentionAfterWrite ==
    \A config \in Configs, stem \in Stems, c \in Contents :
        config.enabled /\ ~Deduplicated(history, stem, c) =>
            LET written == write_backup(history, stem, c, now)
                r       == backup_before_export(history, config, stem,
                                                TargetFile(c), now)
                kept    == Range(list_backups(r, stem))
                deleted == Range(list_backups(written, stem)) \ kept
            IN  /\ Retained(r, config, stem, now)
                /\ kept \subseteq Range(list_backups(written, stem))
                /\ \A f \in kept, g \in deleted : g.ts <= f.ts
                /\ {f \in r : f.stem # stem} = {f \in history : f.stem # stem}

\* one stem was just backed up and holds none of its earlier backups, while
\* the other stem still holds a backup from the first clock value
C24_Witness ==
    /\ now = MaxClock
    /\ \E stem \in Stems, other \in Stems :
        /\ other # stem
        /\ \E f \in history : f.stem = stem /\ f.ts = now
        /\ \A f \in history : f.stem = stem /\ Parseable(f) => f.ts = now
        /\ \E g \in history : g.stem = other /\ g.ts = 1

\* C25: a file of the history directory whose name holds no parseable
\* timestamp is never listed by list_backups and never deleted by rotation,
\* by backup_before_export or by prune_backups, for every max_count
\* (0 included), max_age_days, keep and older_than_days.
C25_StrayFilesIgnored ==
    \A f \in history :
        ~Parseable(f) =>
            /\ \A prefix \in Stems \cup {NONE} :
                   f \notin Range(list_backups(history, prefix))
            /\ \A config \in Configs, stem \in Stems :
                   /\ f \in rotate_history(history, config, stem, now)
                   /\ \A c \in Contents :
                          f \in backup_before_export(history, config, stem,
                                                     TargetFile(c), now)
            /\ \A keep \in Keeps, older_than_days \in OlderThan :
                   f \in prune_backups(history, keep, older_than_days, now)

\* a stray file outlived the backups of its stem
C25_Witness ==
    /\ now > 1
    /\ \E f \in history :
        /\ ~Parseable(f)
        /\ \A g \in history : g.stem = f.stem => g = f
    /\ \E g \in history : Parseable(g)

----------------------------------------------------------------------------
(* Dependency tree *)

\* the issues reachable from id by a path of at most d dependency edges
RECURSIVE WithinEdges(_, _, _)
WithinEdges(t, id, d) ==
    IF d = 0 THEN {id}
    ELSE {id} \cup UNION {WithinEdges(t, m, d - 1) : m \in DependsOn(t, id)}

ChainRows ==
    {[issue_id |-> ChainEdges[k][1], depends_on_id |-> ChainEdges[k][2],
      type |-> "blocks"] : k \in DOMAIN ChainEdges}

\* C26: dep tree(id, max_depth = d) on an existing issue returns exactly the
\* issues reachable from id by a path of at most d outgoing dependency
\* edges, the root at depth 0 and no node deeper than d; on the chain
\* A -> B -> C -> D -> E, max_depth = 2 from A yields A, B and C only.
C26_TreeDepthInclusive ==
    /\ \A id \in TreeIds \cup {"missing"}, d \in 0..MaxDepth :
        LET r == dep_tree(db, id, d)
        IN  /\ r.ok <=> id_exists(db, id)
            /\ r.ok => r.err = NONE
            /\ ~r.ok => r.err = "IssueNotFound" /\ r.nodes = {}
            /\ r.ok => {n.id : n \in r.nodes} = WithinEdges(db, id, d)
            /\ r.ok => [id |-> id, parent |-> NONE, depth |-> 0] \in r.nodes
            /\ \A n \in r.nodes : n.depth <= d /\ (n.depth = 0 => n.id = id)
    /\ db.deps = ChainRows =>
           {n.id : n \in dep_tree(db, "A", 2).nodes} = {"A", "B", "C"}

\* the command of the test: the chain, --max-depth=2 from A, three nodes
C26_Witness ==
    /\ db.deps = ChainRows
    /\ tree.ok /\ tree.id = "A" /\ tree.max_depth = 2
    /\ Cardinality(tree.nodes) = 3

----------------------------------------------------------------------------
(* Reopen *)

\* C27: reopen(id) on a closed issue succeeds, sets status to open and
\* closed_at to null and appends one `reopened` event of the caller for the
\* issue; on an issue in any other status (open, in_progress, blocked,
\* tombstone) it fails with NotClosed, on a missing id with IssueNotFound,
\* and a failed reopen leaves every table as it was.
C27_ReopenOnlyFromClosed ==
    \A id \in Ids, actor \in Actors :
        LET r == reopen_issue(db, id, actor)
        IN  /\ ~id_exists(db, id) =>
                   ~r.ok /\ r.res = "IssueNotFound" /\ r.t = db
            /\ id_exists(db, id) /\ db.issues[id].status # "closed" =>
                   ~r.ok /\ r.res = "NotClosed" /\ r.t = db
            /\ id_exists(db, id) /\ db.issues[id].status = "closed" =>
                   /\ r.ok
                   /\ r.t.issues[id].status = "open"
                   /\ r.t.issues[id].closed_at = NoTime
                   /\ \A j \in DOMAIN db.issues \ {id} :
                          r.t.issues[j] = db.issues[j]
                   /\ Len(r.t.events) = Len(db.events) + 1
                   /\ IsPrefix(db.events, r.t.events)
                   /\ LET e == r.t.events[Len(r.t.events)]
                      IN  /\ e.event_type = "reopened"
                          /\ e.issue_id = id
                          /\ e.actor = actor

\* an issue closed with a closed_at and reopened, next to one in progress
C27_Witness ==
    /\ HasEvent(db, "closed") /\ HasEvent(db, "reopened")
    /\ \E i, j \in DOMAIN db.issues :
        /\ db.issues[i].status = "open" /\ db.issues[i].closed_at = NoTime
        /\ db.events[Len(db.events)].issue_id = i
        /\ db.events[Len(db.events)].event_type = "reopened"
        /\ db.issues[j].status = "in_progress"

----------------------------------------------------------------------------
(* Event time and updated_at *)

\* the issue a call is about
AffectedId(cl) == IF cl.op = "create_issue" THEN cl.issue.id ELSE cl.id

\* C28: every successful mutation leaves at least one new event that carries
\* the call's actor and whose created_at is not earlier than the updated_at
\* the affected issue has after the call: for create the updated_at the
\* caller supplied, for delete the one set inside the transaction.
C28_EventNotBeforeUpdate ==
    \A cl \in StampCalls :
        LET r == RunCall(cl, db)
        IN  (r.ok /\ DataChanged(db, r.t)) =>
                \E k \in (Len(db.events) + 1)..Len(r.t.events) :
                    /\ r.t.events[k].actor = cl.actor
                    /\ r.t.events[k].created_at
                           >= r.t.issues[AffectedId(cl)].updated_at

----------------------------------------------------------------------------
(* Order of the journal *)

\* the journal rows k+1 .. k+Len(es) are the recorded events es, in order
BlockAt(journal, k, es) ==
    /\ Len(journal) >= k + Len(es)
    /\ \A i \in 1..Len(es) :
        /\ journal[k + i].issue_id = es[i].issue_id
        /\ journal[k + i].event_type = es[i].event_type
        /\ journal[k + i].actor = es[i].actor
        /\ journal[k + i].created_at = es[i].created_at

\* C29: whenever the committed journal changes, it grows by exactly the
\* events the committing mutation recorded, in the order its body recorded
\* them and as one block at the end of the journal: no event of another
\* mutation lies between them, also while a second writer contends.
C29_EventsInOrderAndContiguous ==
    [][db'.events # db.events =>
            \E p \in Procs :
                /\ pc[p] = "commit"
                /\ IsPrefix(db.events, db'.events)
                /\ Len(db'.events) = Len(db.events) + Len(ctx[p].events)
                /\ BlockAt(db'.events, Len(db.events), ctx[p].events)]_vars

\* the two events of one mutation lie next to each other in the committed
\* journal, after an event of another mutation, while a writer waits
C29_Witness ==
    /\ \E p \in Procs : pc[p] = "begin"
    /\ \E k \in 2..(Len(db.events) - 1) :
        /\ db.events[k].event_type = "created"
        /\ db.events[k + 1].event_type = "label_added"
        /\ db.events[k + 1].issue_id = db.events[k].issue_id

----------------------------------------------------------------------------
(* Readiness after blocking and unblocking *)

\* x could be ready: it exists, is not terminal, not a template, not deferred
Eligible(t, x) ==
    /\ NonTerminal(t, x)
    /\ ~t.issues[x].is_template
    /\ ~Deferred(t, x)

UnblockingCalls(x, b) ==
    [op : {"close_issue"}, id : {b}, actor : Actors]
    \cup [op : {"delete_issue"}, id : {b}, actor : Actors, reason : Reasons]
    \cup [op : {"remove_dependency"}, id : {x}, depends_on_id : {b},
          actor : Actors]

\* C30: when x is blocked by exactly one other issue b, then after close(b),
\* delete(b) or remove_dependency(x, b) the next ready query contains x and
\* the next blocked query does not, whatever blocked_issues_cache held
\* before the call; and when x is unblocked and b is not terminal, then after
\* add_dependency(x, b, blocks) the next blocked query contains x and the
\* next ready query does not.
C30_ReadinessFollowsBlockers ==
    \A x \in Ids : \A b \in Ids \ {x} :
        /\ (Eligible(db, x) /\ BlockedBy(db, x) = {b}) =>
               \A cl \in UnblockingCalls(x, b) :
                   LET r == RunCall(cl, db)
                   IN  /\ r.ok
                       /\ x \in ReadyQuery(r.t)
                       /\ x \notin BlockedQuery(r.t)
        /\ (/\ Eligible(db, x) /\ BlockedBy(db, x) = {}
            /\ NonTerminal(db, b)
            /\ \A d \in db.deps :
                   ~(d.issue_id = x /\ d.depends_on_id = b)) =>
               \A actor \in Actors :
                   LET r == add_dependency(db, x, b, "blocks", actor)
                   IN  /\ r.ok
                       /\ x \in BlockedQuery(r.t)
                       /\ x \notin ReadyQuery(r.t)

\* the cache was populated while x is blocked by b alone, and a further call
\* can still run
C30_Witness ==
    \E x \in Ids : \E b \in Ids \ {x} :
        /\ db.cache = {[issue_id |-> x, blocked_by |-> {b}]}
        /\ BlockedBy(db, x) = {b}
        /\ Len(db.events) < MaxReadyEvents

----------------------------------------------------------------------------
(* Dirty marks of dependency edits *)

\* C31: after add_dependency(src, dst) succeeds, and after
\* remove_dependency(src, dst) removed a row, src and dst are both in
\* dirty_issues.
C31_BothEndpointsDirty ==
    \A cl \in Calls :
        (/\ cl.op \in {"add_dependency", "remove_dependency"}
         /\ id_exists(db, cl.id) /\ id_exists(db, cl.depends_on_id)) =>
            LET r == RunCall(cl, db)
            IN  (r.ok /\ r.t.deps # db.deps) =>
                    {cl.id, cl.depends_on_id} \subseteq DirtyIds(r.t)

\* C32: remove_dependency(src, dst) without such an edge returns false and
\* leaves every table as it was: dependencies, events, dirty_issues and
\* blocked_issues_cache.
C32_RemoveAbsentEdgeIsNoOp ==
    \A cl \in Calls :
        (/\ cl.op = "remove_dependency"
         /\ \A d \in db.deps : ~(d.issue_id = cl.id
                                 /\ d.depends_on_id = cl.depends_on_id)) =>
            LET r == RunCall(cl, db)
            IN  /\ r.ok /\ r.res = FALSE
                /\ r.t.deps = db.deps
                /\ r.t.events = db.events
                /\ r.t.dirty = db.dirty
                /\ r.t.cache = db.cache
                /\ r.t = db

\* an edge is missing while the cache is populated and an issue is clean of
\* dependency rows of its own
C32_Witness ==
    /\ db.cache # {}
    /\ db.dirty # {}
    /\ \E i \in Ids, j \in Ids :
        /\ \E d \in db.deps : d.issue_id = i
        /\ \A d \in db.deps : ~(d.issue_id = j /\ d.depends_on_id = i)

----------------------------------------------------------------------------
(* The two definitions of the blocked set *)

HasBlocksEdge(t, i) == \E d \in t.deps : d.issue_id = i /\ d.type = "blocks"

\* the complement of ready among the non-terminal, non-template issues that
\* have at least one outgoing `blocks` edge
BlockedAsComplement(t) ==
    {i \in DOMAIN t.issues :
        /\ NonTerminal(t, i)
        /\ ~t.issues[i].is_template
        /\ HasBlocksEdge(t, i)
        /\ i \notin ReadyWith(t, BlockedMap(t))}

\* the issues with at least one outgoing `blocks` edge to a non-terminal
\* target
BlockedByEdge(t) == {i \in DOMAIN t.issues : BlockedBy(t, i) # {}}

----------------------------------------------------------------------------
(* Dependency tree: an issue reached along several paths *)

DiamondRows ==
    {[issue_id |-> e[1], depends_on_id |-> e[2], type |-> "blocks"] :
        e \in {<<"A", "B">>, <<"A", "C">>, <<"B", "D">>, <<"C", "D">>}}

\* the issues reachable from id by at least one edge
ReachedFrom(t, id) ==
    UNION {WithinEdges(t, m, Cardinality(TreeIds)) : m \in DependsOn(t, id)}

TreeAcyclic(t) == \A id \in TreeIds : id \notin ReachedFrom(t, id)

RECURSIVE SumOver(_, _, _, _)
RECURSIVE PathCount(_, _, _)
\* the number of distinct dependency paths between two issues of an acyclic
\* table
PathCount(t, from, to) ==
    IF from = to THEN 1 ELSE SumOver(t, DependsOn(t, from), to, 0)

SumOver(t, ms, to, acc) ==
    IF ms = {} THEN acc
    ELSE LET m == CHOOSE x \in ms : TRUE
         IN  SumOver(t, ms \ {m}, to, acc + PathCount(t, m, to))

Listings(r, x) == {n \in r.nodes : n.id = x}

----------------------------------------------------------------------------
(* Dependency tree: termination on cyclic tables *)

\* some issue reaches itself
HasCycle(t) == \E id \in TreeIds : id \in ReachedFrom(t, id)

\* C35: dep tree ends with a finite tree on every dependencies table, cyclic
\* or with self-loops, with or without a depth bound: the search enters each
\* dependency row at most once, so the tree has at most one node per row
\* besides the root and no node lies deeper than the number of rows.
C35_TreeIsFinite ==
    \A id \in TreeIds, d \in 0..MaxDepth \cup {NoDepth} :
        LET r == dep_tree(db, id, d)
        IN  r.ok =>
              /\ IsFiniteSet(r.nodes)
              /\ Cardinality(r.nodes) <= Cardinality(db.deps) + 1
              /\ \A n \in r.nodes : n.depth <= Cardinality(db.deps)

\* an unbounded tree was asked for from an issue that lies on a cycle, in a
\* table that also holds a self-loop
C35_Witness ==
    /\ HasCycle(db)
    /\ \E e \in db.deps : e.issue_id = e.depends_on_id
    /\ tree.ok /\ tree.max_depth = NoDepth
    /\ tree.id = "A" /\ "A" \in ReachedFrom(db, "A")
    /\ Cardinality(tree.nodes) > 3

----------------------------------------------------------------------------
(* History: backups taken within one second *)

\* C36: every backup_before_export call whose target differs from the most
\* recent backup of its stem adds one new backup file, under a timestamp no
\* existing backup of the stem carries, and leaves every earlier backup in
\* place, also when the previous backup was taken within the same second
\* (retention left aside: default limits).
C36_RapidBackupsPreserved ==
    \A stem \in Stems, c \in Contents :
        ~Deduplicated(history, stem, c) =>
            LET r == backup_before_export(history, DefaultConfig, stem,
                                          TargetFile(c), now)
            IN  /\ history \subseteq r
                /\ Cardinality(r) = Cardinality(history) + 1
                /\ \A f \in Range(list_backups(history, stem)) : f.ts # now

----------------------------------------------------------------------------
(* list and search (checked under SpecList) *)

Limits == {NoLimit, 0, 1, 2}

Queries == {"", "a", "ab"}

ListFilters ==
    [statuses : {{}, {"closed", "tombstone"}},
     include_closed : BOOLEAN, include_templates : BOOLEAN, limit : Limits]

\* the issues the default filters let through
Visible(t) ==
    {i \in DOMAIN t.issues :
        t.issues[i].status \notin Terminal /\ ~t.issues[i].is_template}

\* priority ascending, then created_at descending, no row twice
InListOrder(t, r) ==
    \A j, k \in DOMAIN r :
        j < k => /\ r[j] # r[k]
                 /\ t.issues[r[j]].priority <= t.issues[r[k]].priority
                 /\ t.issues[r[j]].priority = t.issues[r[k]].priority =>
                        t.issues[r[j]].created_at >= t.issues[r[k]].created_at

\* what a query owes for the set of issues it is to return, under a limit
Returns(t, rows, expected, limit) ==
    /\ rows # {}
    /\ \A r \in rows :
        /\ InListOrder(t, r)
        /\ Range(r) \subseteq expected
        /\ limit <= 0 => Range(r) = expected
        /\ limit > 0 =>
               Len(r) = IF limit < Cardinality(expected)
                        THEN limit ELSE Cardinality(expected)

\* C37: list and search with default filters return exactly the matching
\* issues that are neither closed nor tombstone nor templates, by priority
\* ascending and then created_at descending; a limit of 0 (or none) returns
\* them all, a positive limit the first so many; closed and tombstone issues
\* come back only with include_closed.
C37_DefaultListing ==
    /\ \A limit \in Limits :
        LET f == [DefaultFilters EXCEPT !.limit = limit]
        IN  /\ Returns(db, list_issues_rows(db, f), Visible(db), limit)
            /\ \A q \in Queries :
                 Returns(db, search_issues_rows(db, q, f),
                         IF q = "" THEN {}
                         ELSE {i \in Visible(db) : Like(i, q)}, limit)
    /\ \A f \in ListFilters, q \in Queries :
        \A r \in list_issues_rows(db, f) \cup search_issues_rows(db, q, f) :
            /\ InListOrder(db, r)
            /\ ~f.include_closed =>
                   \A i \in Range(r) : db.issues[i].status \notin Terminal
            /\ ~f.include_templates =>
                   \A i \in Range(r) : ~db.issues[i].is_template
    /\ Returns(db,
               list_issues_rows(db, [DefaultFilters
                                       EXCEPT !.include_closed = TRUE]),
               {i \in DOMAIN db.issues : ~db.issues[i].is_template}, NoLimit)

\* two listed issues of one priority, the younger first also under limit 1,
\* and a closed issue, a tombstone or a template that
\* is left out
C37_Witness ==
    /\ DOMAIN db.issues = ListIds
    /\ Cardinality(Visible(db)) = 2
    /\ \E x, y \in Visible(db) :
        /\ db.issues[x].created_at > db.issues[y].created_at
        /\ db.issues[x].priority = db.issues[y].priority
        /\ list_issues_rows(db, DefaultFilters) = {<<x, y>>}
        /\ list_issues_rows(db, [DefaultFilters EXCEPT !.limit = 1]) = {<<x>>}

----------------------------------------------------------------------------
(* delete_issue among concurrent writers (checked under SpecTxDelete) *)

\* C38: whenever a delete_issue commits, the tombstone it writes records as
\* original_type the issue_type the row held in the state committed last
\* before, and the id of its `deleted` event has an issue row; no commit of
\* another writer between delete_issue's read and its transaction changes
\* that.
C38_TombstoneNotStale ==
    [][\A p \in Procs :
          pc[p] = "commit" /\ pc'[p] = "idle"
          /\ call[p].cl.op = "delete_issue" =>
              /\ id_exists(db, call[p].cl.id)
              /\ db'.issues[call[p].cl.id].original_type
                     = db.issues[call[p].cl.id].issue_type]_vars

----------------------------------------------------------------------------
(* The columns create_issue writes (checked under SpecFields) *)

\* C39: create_issue persists status, priority, issue_type, created_at,
\* updated_at and defer_until of the supplied issue (of the modelled fields)
\* and ignores the rest: get_issue right after the create returns closed_at
\* and the four tombstone fields as null and is_template as false, no label
\* or dependency row is written, and no created issue is ever a template.
C39_CreatePersistsNamedColumnsOnly ==
    /\ \A issue \in FullIssues :
        LET r == create_issue(db, issue, "alice")
            g == get_issue(r.t, issue.id)
        IN  r.ok =>
              /\ g.status = issue.status
              /\ g.priority = issue.priority
              /\ g.issue_type = issue.issue_type
              /\ g.created_at = issue.created_at
              /\ g.updated_at = issue.updated_at
              /\ g.defer_until = issue.defer_until
              /\ g.closed_at = NoTime
              /\ g.deleted_at = NoTime
              /\ g.deleted_by = NULL
              /\ g.delete_reason = NULL
              /\ g.original_type = NULL
              /\ ~g.is_template
              /\ r.t.labels = db.labels
              /\ r.t.deps = db.deps
    /\ \A i \in DOMAIN db.issues : ~db.issues[i].is_template

\* an issue supplied as a closed, deleted template with a label and a
\* dependency was created
C39_Witness ==
    \E issue \in FullIssues :
        /\ issue.is_template /\ issue.status = "closed" /\ issue.closed_at = 1
        /\ issue.deleted_at = 1 /\ issue.deleted_by = "bob"
        /\ issue.labels # {} /\ issue.dependencies # {}
        /\ id_exists(db, issue.id)
        /\ get_issue(db, issue.id).status = "closed"
        /\ get_issue(db, issue.id).updated_at = issue.updated_at
        /\ get_issue(db, issue.id).closed_at = NoTime
        /\ \E k \in DOMAIN db.events :
              db.events[k].event_type = "created"
              /\ db.events[k].issue_id = issue.id

----------------------------------------------------------------------------
(* remove_all_dependencies (checked under SpecSync) *)

\* the dependency rows that mention the issue, in either direction
RowsOf(t, id) == {d \in t.deps : d.issue_id = id \/ d.depends_on_id = id}

Neighbours(t, id) ==
    {d.issue_id : d \in RowsOf(t, id)} \cup {d.depends_on_id : d \in RowsOf(t, id)}

\* C40: remove_all_dependencies(id) removes exactly the dependency rows that
\* mention id and returns their number; if there were any, exactly one
\* dependency_removed event is recorded, id and every former neighbour are
\* dirty and the cache is emptied; if there were none, nothing changes.
C40_RemoveAllDependencies ==
    \A cl \in Calls :
        cl.op = "remove_all_dependencies" =>
            LET r    == RunCall(cl, db)
                gone == RowsOf(db, cl.id)
            IN  /\ r.ok
                /\ r.res = Cardinality(gone)
                /\ r.t.deps = db.deps \ gone
                /\ RowsOf(r.t, cl.id) = {}
                /\ r.t.issues = db.issues /\ r.t.labels = db.labels
                /\ gone # {} =>
                      /\ Len(r.t.events) = Len(db.events) + 1
                      /\ SubSeq(r.t.events, 1, Len(db.events)) = db.events
                      /\ r.t.events[Len(r.t.events)].event_type
                             = "dependency_removed"
                      /\ r.t.events[Len(r.t.events)].issue_id = cl.id
                      /\ r.t.events[Len(r.t.events)].actor = cl.actor
                      /\ DirtyIds(r.t)
                             = DirtyIds(db) \cup {cl.id} \cup Neighbours(db, cl.id)
                      /\ r.t.cache = {}
                /\ gone = {} => r.t = db

\* nothing is dirty, the cache is populated, and an issue has a dependency
\* row that joins it to another issue
C40_Witness ==
    /\ db.dirty = {}
    /\ db.cache # {}
    /\ \E id \in Ids : Neighbours(db, id) \ {id} # {}

====
